---- MODULE Spec2Model ----
(***************************************************************************)
(* The formatting state machine of src/core/Formatter.js.                  *)
(*                                                                         *)
(* Strings are sequences of one-character strings, so that trimming,       *)
(* splitting into lines and measuring lengths are computed as the code     *)
(* computes them.  One Formatter object is modelled; the tokenizer's       *)
(* result is an input drawn from a bounded set of token sequences.         *)
(***************************************************************************)
EXTENDS Integers, Sequences, FiniteSets, TLC

VARIABLES
    this,            \* the Formatter object: cfg, indentation, inlineBlock, params,
                     \* previousReservedWord, nextLinePrepend
    tokens,          \* the array returned by tokenizer.tokenize, as it is now
    supplied,        \* the same array as the tokenizer supplied it
    index,           \* forEach position (1-based)
    formattedQuery,  \* the local formattedQuery of the running call
    pc,              \* "idle" | "running" | "returned"
    output,          \* the string returned by the last format call
    calls,           \* format calls started on this Formatter object
    reformatOf,      \* the earlier output whose tokens are being formatted, or None
    history          \* history variable: history[k] is the indentation and the
                     \* inline block as the callback of token k found them

vars == <<this, tokens, supplied, index, formattedQuery, pc, output, calls, reformatOf,
          history>>

----------------------------------------------------------------------------
(* Bounds *)

\* longest token sequence drawn freely from the vocabulary
MaxLen == 3
\* format calls on one Formatter object
MaxCalls == 2
\* longest token sequence drawn from the vocabulary where termination is checked
MaxFairLen == 2

----------------------------------------------------------------------------
(* Strings *)

\* A character is a string of length 1, one per UTF-16 code unit.  A character
\* that a string of a module cannot hold is written by its code point, as in
\* "U+2028", and stands for that one character.

NL == "\n"
SP == " "

\* the characters that \s, String.prototype.trim and lodash/trimEnd take for
\* whitespace: U+0009 to U+000D, U+0020, U+00A0, U+1680, U+2000 to U+200A,
\* U+2028, U+2029, U+202F, U+205F, U+3000 and U+FEFF
WhitespaceChars ==
    { "\t", "\n", "", "\f", "\r", " ",
      " ", " ", "U+2000", "U+2001", "U+2002", "U+2003",
      "U+2004", "U+2005", "U+2006", "U+2007", "U+2008", "U+2009",
      "U+200A", "U+2028", "U+2029", "U+202F", "U+205F", "U+3000",
      "﻿" }

RECURSIVE concat(_)
concat(seqs) == IF seqs = <<>> THEN <<>> ELSE Head(seqs) \o concat(Tail(seqs))

Max(S) == CHOOSE x \in S : \A y \in S : y <= x
Min(S) == CHOOSE x \in S : \A y \in S : x <= y

\* In the helpers below the bound variable s holds the argument's value, so
\* that the argument is computed once however often the body reads it.

\* lodash/trimEnd
trimEnd(string) ==
    CHOOSE r \in { LET keep == {i \in 1..Len(s) : s[i] \notin WhitespaceChars}
                   IN  IF keep = {} THEN <<>> ELSE SubSeq(s, 1, Max(keep))
                   : s \in {string} } : TRUE

\* String.prototype.trim
trim(string) ==
    CHOOSE r \in { LET keep == {i \in 1..Len(s) : s[i] \notin WhitespaceChars}
                   IN  IF keep = {} THEN <<>> ELSE SubSeq(s, Min(keep), Max(keep))
                   : s \in {string} } : TRUE

\* lodash/repeat
RECURSIVE repeat(_, _)
repeat(s, n) == IF n <= 0 THEN <<>> ELSE s \o repeat(s, n - 1)

\* s has pat at position i
MatchAt(s, pat, i) ==
    /\ i >= 1
    /\ i + Len(pat) - 1 <= Len(s)
    /\ SubSeq(s, i, i + Len(pat) - 1) = pat

\* GetSubstitution of String.prototype.replace, for a pattern without capture
\* groups: the text that replacement stands for where matched was found at
\* position of string.  $$ is a dollar sign, $& the matched text, $ with a
\* grave accent (U+0060) the text before the match, $ with an apostrophe the
\* text after it; any other $ stands for itself.
RECURSIVE GetSubstitution(_, _, _, _)
GetSubstitution(replacement, string, position, matched) ==
    IF replacement = <<>> THEN <<>>
    ELSE IF Head(replacement) = "$" /\ Len(replacement) > 1
    THEN LET c == replacement[2]
             rest == SubSeq(replacement, 3, Len(replacement))
         IN  IF c = "$"
             THEN <<"$">> \o GetSubstitution(rest, string, position, matched)
             ELSE IF c = "&"
             THEN matched \o GetSubstitution(rest, string, position, matched)
             ELSE IF c = "U+0060"
             THEN SubSeq(string, 1, position - 1)
                  \o GetSubstitution(rest, string, position, matched)
             ELSE IF c = "'"
             THEN SubSeq(string, position + Len(matched), Len(string))
                  \o GetSubstitution(rest, string, position, matched)
             ELSE <<"$">> \o GetSubstitution(Tail(replacement), string, position, matched)
    ELSE <<Head(replacement)>>
         \o GetSubstitution(Tail(replacement), string, position, matched)

\* String.prototype.replace with a string pattern: the first occurrence only
replaceFirst(string, pat, rep) ==
    CHOOSE r \in { LET hits == {i \in 1..Len(s) : MatchAt(s, pat, i)}
                   IN  IF hits = {} THEN s
                       ELSE SubSeq(s, 1, Min(hits) - 1)
                            \o GetSubstitution(rep, s, Min(hits), pat)
                            \o SubSeq(s, Min(hits) + Len(pat), Len(s))
                   : s \in {string} } : TRUE

\* String.prototype.replace(/\n/g, rep)
replaceNewlines(s, rep) ==
    CHOOSE r \in { concat([i \in 1..Len(a[1]) |->
                              IF a[1][i] = NL
                              THEN GetSubstitution(a[2], a[1], i, <<NL>>)
                              ELSE <<a[1][i]>>])
                   : a \in {<<s, rep>>} } : TRUE

LowerCase == << "a","b","c","d","e","f","g","h","i","j","k","l","m",
                "n","o","p","q","r","s","t","u","v","w","x","y","z" >>
UpperCase == << "A","B","C","D","E","F","G","H","I","J","K","L","M",
                "N","O","P","Q","R","S","T","U","V","W","X","Y","Z" >>
Digits == {"0","1","2","3","4","5","6","7","8","9"}

\* String.prototype.toUpperCase maps each character by the Unicode case
\* mapping, which may give several characters; the tables are those of
\* Unicode 17.0, which Node.js 20.20 implements.  CaseMappings has the
\* characters of the Basic Multilingual Plane other than a to z whose upper
\* case is not the character itself, each with its upper case.
CaseMappings ==
    { <<"µ", <<"Μ">>>>, <<"ß", <<"S", "S">>>>, <<"à", <<"À">>>>, <<"á", <<"Á">>>>,
      <<"â", <<"Â">>>>, <<"ã", <<"Ã">>>>, <<"ä", <<"Ä">>>>, <<"å", <<"Å">>>>, <<"æ", <<"Æ">>>>,
      <<"ç", <<"Ç">>>>, <<"è", <<"È">>>>, <<"é", <<"É">>>>, <<"ê", <<"Ê">>>>, <<"ë", <<"Ë">>>>,
      <<"ì", <<"Ì">>>>, <<"í", <<"Í">>>>, <<"î", <<"Î">>>>, <<"ï", <<"Ï">>>>, <<"ð", <<"Ð">>>>,
      <<"ñ", <<"Ñ">>>>, <<"ò", <<"Ò">>>>, <<"ó", <<"Ó">>>>, <<"ô", <<"Ô">>>>, <<"õ", <<"Õ">>>>,
      <<"ö", <<"Ö">>>>, <<"ø", <<"Ø">>>>, <<"ù", <<"Ù">>>>, <<"ú", <<"Ú">>>>, <<"û", <<"Û">>>>,
      <<"ü", <<"Ü">>>>, <<"ý", <<"Ý">>>>, <<"þ", <<"Þ">>>>, <<"ÿ", <<"U+0178">>>>,
      <<"U+0101", <<"U+0100">>>>, <<"U+0103", <<"U+0102">>>>, <<"U+0105", <<"U+0104">>>>,
      <<"U+0107", <<"U+0106">>>>, <<"U+0109", <<"U+0108">>>>, <<"U+010B", <<"U+010A">>>>,
      <<"U+010D", <<"U+010C">>>>, <<"U+010F", <<"U+010E">>>>, <<"U+0111", <<"U+0110">>>>,
      <<"U+0113", <<"U+0112">>>>, <<"U+0115", <<"U+0114">>>>, <<"U+0117", <<"U+0116">>>>,
      <<"U+0119", <<"U+0118">>>>, <<"U+011B", <<"U+011A">>>>, <<"U+011D", <<"U+011C">>>>,
      <<"U+011F", <<"U+011E">>>>, <<"U+0121", <<"U+0120">>>>, <<"U+0123", <<"U+0122">>>>,
      <<"U+0125", <<"U+0124">>>>, <<"U+0127", <<"U+0126">>>>, <<"U+0129", <<"U+0128">>>>,
      <<"U+012B", <<"U+012A">>>>, <<"U+012D", <<"U+012C">>>>, <<"U+012F", <<"U+012E">>>>,
      <<"U+0131", <<"I">>>>, <<"U+0133", <<"U+0132">>>>, <<"U+0135", <<"U+0134">>>>,
      <<"U+0137", <<"U+0136">>>>, <<"U+013A", <<"U+0139">>>>, <<"U+013C", <<"U+013B">>>>,
      <<"U+013E", <<"U+013D">>>>, <<"U+0140", <<"U+013F">>>>, <<"U+0142", <<"U+0141">>>>,
      <<"U+0144", <<"U+0143">>>>, <<"U+0146", <<"U+0145">>>>, <<"U+0148", <<"U+0147">>>>,
      <<"U+0149", <<"ʼ", "N">>>>, <<"U+014B", <<"U+014A">>>>, <<"U+014D", <<"U+014C">>>>,
      <<"U+014F", <<"U+014E">>>>, <<"U+0151", <<"U+0150">>>>, <<"U+0153", <<"U+0152">>>>,
      <<"U+0155", <<"U+0154">>>>, <<"U+0157", <<"U+0156">>>>, <<"U+0159", <<"U+0158">>>>,
      <<"U+015B", <<"U+015A">>>>, <<"U+015D", <<"U+015C">>>>, <<"U+015F", <<"U+015E">>>>,
      <<"U+0161", <<"U+0160">>>>, <<"U+0163", <<"U+0162">>>>, <<"U+0165", <<"U+0164">>>>,
      <<"U+0167", <<"U+0166">>>>, <<"U+0169", <<"U+0168">>>>, <<"U+016B", <<"U+016A">>>>,
      <<"U+016D", <<"U+016C">>>>, <<"U+016F", <<"U+016E">>>>, <<"U+0171", <<"U+0170">>>>,
      <<"U+0173", <<"U+0172">>>>, <<"U+0175", <<"U+0174">>>>, <<"U+0177", <<"U+0176">>>>,
      <<"U+017A", <<"U+0179">>>>, <<"U+017C", <<"U+017B">>>>, <<"U+017E", <<"U+017D">>>>,
      <<"U+017F", <<"S">>>>, <<"ƀ", <<"U+0243">>>>, <<"ƃ", <<"Ƃ">>>>, <<"ƅ", <<"Ƅ">>>>,
      <<"ƈ", <<"Ƈ">>>>, <<"ƌ", <<"Ƌ">>>>, <<"ƒ", <<"Ƒ">>>>, <<"ƕ", <<"Ƕ">>>>, <<"ƙ", <<"Ƙ">>>>,
      <<"ƚ", <<"U+023D">>>>, <<"U+019B", <<"U+A7DC">>>>, <<"ƞ", <<"U+0220">>>>, <<"ơ", <<"Ơ">>>>,
      <<"ƣ", <<"Ƣ">>>>, <<"ƥ", <<"Ƥ">>>>, <<"ƨ", <<"Ƨ">>>>, <<"ƭ", <<"Ƭ">>>>, <<"ư", <<"Ư">>>>,
      <<"ƴ", <<"Ƴ">>>>, <<"ƶ", <<"Ƶ">>>>, <<"ƹ", <<"Ƹ">>>>, <<"ƽ", <<"Ƽ">>>>, <<"ƿ", <<"Ƿ">>>>,
      <<"ǅ", <<"Ǆ">>>>, <<"ǆ", <<"Ǆ">>>>, <<"ǈ", <<"Ǉ">>>>, <<"ǉ", <<"Ǉ">>>>, <<"ǋ", <<"Ǌ">>>>,
      <<"ǌ", <<"Ǌ">>>>, <<"ǎ", <<"Ǎ">>>>, <<"ǐ", <<"Ǐ">>>>, <<"ǒ", <<"Ǒ">>>>, <<"ǔ", <<"Ǔ">>>>,
      <<"ǖ", <<"Ǖ">>>>, <<"ǘ", <<"Ǘ">>>>, <<"ǚ", <<"Ǚ">>>>, <<"ǜ", <<"Ǜ">>>>, <<"ǝ", <<"Ǝ">>>>,
      <<"ǟ", <<"Ǟ">>>>, <<"ǡ", <<"Ǡ">>>>, <<"ǣ", <<"Ǣ">>>>, <<"ǥ", <<"Ǥ">>>>, <<"ǧ", <<"Ǧ">>>>,
      <<"ǩ", <<"Ǩ">>>>, <<"ǫ", <<"Ǫ">>>>, <<"ǭ", <<"Ǭ">>>>, <<"ǯ", <<"Ǯ">>>>,
      <<"ǰ", <<"J", "U+030C">>>>, <<"ǲ", <<"Ǳ">>>>, <<"ǳ", <<"Ǳ">>>>, <<"ǵ", <<"Ǵ">>>>,
      <<"ǹ", <<"Ǹ">>>>, <<"ǻ", <<"Ǻ">>>>, <<"ǽ", <<"Ǽ">>>>, <<"ǿ", <<"Ǿ">>>>,
      <<"U+0201", <<"U+0200">>>>, <<"U+0203", <<"U+0202">>>>, <<"U+0205", <<"U+0204">>>>,
      <<"U+0207", <<"U+0206">>>>, <<"U+0209", <<"U+0208">>>>, <<"U+020B", <<"U+020A">>>>,
      <<"U+020D", <<"U+020C">>>>, <<"U+020F", <<"U+020E">>>>, <<"U+0211", <<"U+0210">>>>,
      <<"U+0213", <<"U+0212">>>>, <<"U+0215", <<"U+0214">>>>, <<"U+0217", <<"U+0216">>>>,
      <<"U+0219", <<"U+0218">>>>, <<"U+021B", <<"U+021A">>>>, <<"U+021D", <<"U+021C">>>>,
      <<"U+021F", <<"U+021E">>>>, <<"U+0223", <<"U+0222">>>>, <<"U+0225", <<"U+0224">>>>,
      <<"U+0227", <<"U+0226">>>>, <<"U+0229", <<"U+0228">>>>, <<"U+022B", <<"U+022A">>>>,
      <<"U+022D", <<"U+022C">>>>, <<"U+022F", <<"U+022E">>>>, <<"U+0231", <<"U+0230">>>>,
      <<"U+0233", <<"U+0232">>>>, <<"U+023C", <<"U+023B">>>>, <<"U+023F", <<"U+2C7E">>>>,
      <<"U+0240", <<"U+2C7F">>>>, <<"U+0242", <<"U+0241">>>>, <<"U+0247", <<"U+0246">>>>,
      <<"U+0249", <<"U+0248">>>>, <<"U+024B", <<"U+024A">>>>, <<"U+024D", <<"U+024C">>>>,
      <<"U+024F", <<"U+024E">>>>, <<"U+0250", <<"U+2C6F">>>>, <<"U+0251", <<"U+2C6D">>>>,
      <<"U+0252", <<"U+2C70">>>>, <<"U+0253", <<"Ɓ">>>>, <<"U+0254", <<"Ɔ">>>>,
      <<"U+0256", <<"Ɖ">>>>, <<"U+0257", <<"Ɗ">>>>, <<"U+0259", <<"Ə">>>>, <<"U+025B", <<"Ɛ">>>>,
      <<"U+025C", <<"Ɜ">>>>, <<"U+0260", <<"Ɠ">>>>, <<"U+0261", <<"Ɡ">>>>, <<"U+0263", <<"Ɣ">>>>,
      <<"U+0264", <<"U+A7CB">>>>, <<"U+0265", <<"Ɥ">>>>, <<"U+0266", <<"Ɦ">>>>,
      <<"U+0268", <<"Ɨ">>>>, <<"U+0269", <<"Ɩ">>>>, <<"U+026A", <<"Ɪ">>>>,
      <<"U+026B", <<"U+2C62">>>>, <<"U+026C", <<"Ɬ">>>>, <<"U+026F", <<"Ɯ">>>>,
      <<"U+0271", <<"U+2C6E">>>>, <<"U+0272", <<"Ɲ">>>>, <<"U+0275", <<"Ɵ">>>>,
      <<"U+027D", <<"U+2C64">>>>, <<"ʀ", <<"Ʀ">>>>, <<"ʂ", <<"Ʂ">>>>, <<"ʃ", <<"Ʃ">>>>,
      <<"ʇ", <<"Ʇ">>>>, <<"ʈ", <<"Ʈ">>>>, <<"ʉ", <<"U+0244">>>>, <<"ʊ", <<"Ʊ">>>>,
      <<"ʋ", <<"Ʋ">>>>, <<"ʌ", <<"U+0245">>>>, <<"ʒ", <<"Ʒ">>>>, <<"ʝ", <<"Ʝ">>>>,
      <<"ʞ", <<"Ʞ">>>>, <<"U+0345", <<"Ι">>>>, <<"U+0371", <<"U+0370">>>>,
      <<"U+0373", <<"U+0372">>>>, <<"U+0377", <<"U+0376">>>>, <<"U+037B", <<"Ͻ">>>>,
      <<"U+037C", <<"Ͼ">>>>, <<"U+037D", <<"Ͽ">>>>, <<"ΐ", <<"Ι", "U+0308", "U+0301">>>>,
      <<"ά", <<"Ά">>>>, <<"έ", <<"Έ">>>>, <<"ή", <<"Ή">>>>, <<"ί", <<"Ί">>>>,
      <<"ΰ", <<"Υ", "U+0308", "U+0301">>>>, <<"α", <<"Α">>>>, <<"β", <<"Β">>>>, <<"γ", <<"Γ">>>>,
      <<"δ", <<"Δ">>>>, <<"ε", <<"Ε">>>>, <<"ζ", <<"Ζ">>>>, <<"η", <<"Η">>>>, <<"θ", <<"Θ">>>>,
      <<"ι", <<"Ι">>>>, <<"κ", <<"Κ">>>>, <<"λ", <<"Λ">>>>, <<"μ", <<"Μ">>>>, <<"ν", <<"Ν">>>>,
      <<"ξ", <<"Ξ">>>>, <<"ο", <<"Ο">>>>, <<"π", <<"Π">>>>, <<"ρ", <<"Ρ">>>>, <<"ς", <<"Σ">>>>,
      <<"σ", <<"Σ">>>>, <<"τ", <<"Τ">>>>, <<"υ", <<"Υ">>>>, <<"φ", <<"Φ">>>>, <<"χ", <<"Χ">>>>,
      <<"ψ", <<"Ψ">>>>, <<"ω", <<"Ω">>>>, <<"ϊ", <<"Ϊ">>>>, <<"ϋ", <<"Ϋ">>>>, <<"ό", <<"Ό">>>>,
      <<"ύ", <<"Ύ">>>>, <<"ώ", <<"Ώ">>>>, <<"ϐ", <<"Β">>>>, <<"ϑ", <<"Θ">>>>, <<"ϕ", <<"Φ">>>>,
      <<"ϖ", <<"Π">>>>, <<"ϗ", <<"Ϗ">>>>, <<"ϙ", <<"Ϙ">>>>, <<"ϛ", <<"Ϛ">>>>, <<"ϝ", <<"Ϝ">>>>,
      <<"ϟ", <<"Ϟ">>>>, <<"ϡ", <<"Ϡ">>>>, <<"ϣ", <<"Ϣ">>>>, <<"ϥ", <<"Ϥ">>>>, <<"ϧ", <<"Ϧ">>>>,
      <<"ϩ", <<"Ϩ">>>>, <<"ϫ", <<"Ϫ">>>>, <<"ϭ", <<"Ϭ">>>>, <<"ϯ", <<"Ϯ">>>>, <<"ϰ", <<"Κ">>>>,
      <<"ϱ", <<"Ρ">>>>, <<"ϲ", <<"Ϲ">>>>, <<"ϳ", <<"U+037F">>>>, <<"ϵ", <<"Ε">>>>,
      <<"ϸ", <<"Ϸ">>>>, <<"ϻ", <<"Ϻ">>>>, <<"U+0430", <<"U+0410">>>>, <<"U+0431", <<"U+0411">>>>,
      <<"U+0432", <<"U+0412">>>>, <<"U+0433", <<"U+0413">>>>, <<"U+0434", <<"U+0414">>>>,
      <<"U+0435", <<"U+0415">>>>, <<"U+0436", <<"U+0416">>>>, <<"U+0437", <<"U+0417">>>>,
      <<"U+0438", <<"U+0418">>>>, <<"U+0439", <<"U+0419">>>>, <<"U+043A", <<"U+041A">>>>,
      <<"U+043B", <<"U+041B">>>>, <<"U+043C", <<"U+041C">>>>, <<"U+043D", <<"U+041D">>>>,
      <<"U+043E", <<"U+041E">>>>, <<"U+043F", <<"U+041F">>>>, <<"U+0440", <<"U+0420">>>>,
      <<"U+0441", <<"U+0421">>>>, <<"U+0442", <<"U+0422">>>>, <<"U+0443", <<"U+0423">>>>,
      <<"U+0444", <<"U+0424">>>>, <<"U+0445", <<"U+0425">>>>, <<"U+0446", <<"U+0426">>>>,
      <<"U+0447", <<"U+0427">>>>, <<"U+0448", <<"U+0428">>>>, <<"U+0449", <<"U+0429">>>>,
      <<"U+044A", <<"U+042A">>>>, <<"U+044B", <<"U+042B">>>>, <<"U+044C", <<"U+042C">>>>,
      <<"U+044D", <<"U+042D">>>>, <<"U+044E", <<"U+042E">>>>, <<"U+044F", <<"U+042F">>>>,
      <<"U+0450", <<"U+0400">>>>, <<"U+0451", <<"U+0401">>>>, <<"U+0452", <<"U+0402">>>>,
      <<"U+0453", <<"U+0403">>>>, <<"U+0454", <<"U+0404">>>>, <<"U+0455", <<"U+0405">>>>,
      <<"U+0456", <<"U+0406">>>>, <<"U+0457", <<"U+0407">>>>, <<"U+0458", <<"U+0408">>>>,
      <<"U+0459", <<"U+0409">>>>, <<"U+045A", <<"U+040A">>>>, <<"U+045B", <<"U+040B">>>>,
      <<"U+045C", <<"U+040C">>>>, <<"U+045D", <<"U+040D">>>>, <<"U+045E", <<"U+040E">>>>,
      <<"U+045F", <<"U+040F">>>>, <<"U+0461", <<"U+0460">>>>, <<"U+0463", <<"U+0462">>>>,
      <<"U+0465", <<"U+0464">>>>, <<"U+0467", <<"U+0466">>>>, <<"U+0469", <<"U+0468">>>>,
      <<"U+046B", <<"U+046A">>>>, <<"U+046D", <<"U+046C">>>>, <<"U+046F", <<"U+046E">>>>,
      <<"U+0471", <<"U+0470">>>>, <<"U+0473", <<"U+0472">>>>, <<"U+0475", <<"U+0474">>>>,
      <<"U+0477", <<"U+0476">>>>, <<"U+0479", <<"U+0478">>>>, <<"U+047B", <<"U+047A">>>>,
      <<"U+047D", <<"U+047C">>>>, <<"U+047F", <<"U+047E">>>>, <<"ҁ", <<"Ҁ">>>>, <<"ҋ", <<"Ҋ">>>>,
      <<"ҍ", <<"Ҍ">>>>, <<"ҏ", <<"Ҏ">>>>, <<"ґ", <<"Ґ">>>>, <<"ғ", <<"Ғ">>>>, <<"ҕ", <<"Ҕ">>>>,
      <<"җ", <<"Җ">>>>, <<"ҙ", <<"Ҙ">>>>, <<"қ", <<"Қ">>>>, <<"ҝ", <<"Ҝ">>>>, <<"ҟ", <<"Ҟ">>>>,
      <<"ҡ", <<"Ҡ">>>>, <<"ң", <<"Ң">>>>, <<"ҥ", <<"Ҥ">>>>, <<"ҧ", <<"Ҧ">>>>, <<"ҩ", <<"Ҩ">>>>,
      <<"ҫ", <<"Ҫ">>>>, <<"ҭ", <<"Ҭ">>>>, <<"ү", <<"Ү">>>>, <<"ұ", <<"Ұ">>>>, <<"ҳ", <<"Ҳ">>>>,
      <<"ҵ", <<"Ҵ">>>>, <<"ҷ", <<"Ҷ">>>>, <<"ҹ", <<"Ҹ">>>>, <<"һ", <<"Һ">>>>, <<"ҽ", <<"Ҽ">>>>,
      <<"ҿ", <<"Ҿ">>>>, <<"ӂ", <<"Ӂ">>>>, <<"ӄ", <<"Ӄ">>>>, <<"ӆ", <<"Ӆ">>>>, <<"ӈ", <<"Ӈ">>>>,
      <<"ӊ", <<"Ӊ">>>>, <<"ӌ", <<"Ӌ">>>>, <<"ӎ", <<"Ӎ">>>>, <<"ӏ", <<"Ӏ">>>>, <<"ӑ", <<"Ӑ">>>>,
      <<"ӓ", <<"Ӓ">>>>, <<"ӕ", <<"Ӕ">>>>, <<"ӗ", <<"Ӗ">>>>, <<"ә", <<"Ә">>>>, <<"ӛ", <<"Ӛ">>>>,
      <<"ӝ", <<"Ӝ">>>>, <<"ӟ", <<"Ӟ">>>>, <<"ӡ", <<"Ӡ">>>>, <<"ӣ", <<"Ӣ">>>>, <<"ӥ", <<"Ӥ">>>>,
      <<"ӧ", <<"Ӧ">>>>, <<"ө", <<"Ө">>>>, <<"ӫ", <<"Ӫ">>>>, <<"ӭ", <<"Ӭ">>>>, <<"ӯ", <<"Ӯ">>>>,
      <<"ӱ", <<"Ӱ">>>>, <<"ӳ", <<"Ӳ">>>>, <<"ӵ", <<"Ӵ">>>>, <<"ӷ", <<"Ӷ">>>>, <<"ӹ", <<"Ӹ">>>>,
      <<"ӻ", <<"Ӻ">>>>, <<"ӽ", <<"Ӽ">>>>, <<"ӿ", <<"Ӿ">>>>, <<"U+0501", <<"U+0500">>>>,
      <<"U+0503", <<"U+0502">>>>, <<"U+0505", <<"U+0504">>>>, <<"U+0507", <<"U+0506">>>>,
      <<"U+0509", <<"U+0508">>>>, <<"U+050B", <<"U+050A">>>>, <<"U+050D", <<"U+050C">>>>,
      <<"U+050F", <<"U+050E">>>>, <<"U+0511", <<"U+0510">>>>, <<"U+0513", <<"U+0512">>>>,
      <<"U+0515", <<"U+0514">>>>, <<"U+0517", <<"U+0516">>>>, <<"U+0519", <<"U+0518">>>>,
      <<"U+051B", <<"U+051A">>>>, <<"U+051D", <<"U+051C">>>>, <<"U+051F", <<"U+051E">>>>,
      <<"U+0521", <<"U+0520">>>>, <<"U+0523", <<"U+0522">>>>, <<"U+0525", <<"U+0524">>>>,
      <<"U+0527", <<"U+0526">>>>, <<"U+0529", <<"U+0528">>>>, <<"U+052B", <<"U+052A">>>>,
      <<"U+052D", <<"U+052C">>>>, <<"U+052F", <<"U+052E">>>>, <<"U+0561", <<"U+0531">>>>,
      <<"U+0562", <<"U+0532">>>>, <<"U+0563", <<"U+0533">>>>, <<"U+0564", <<"U+0534">>>>,
      <<"U+0565", <<"U+0535">>>>, <<"U+0566", <<"U+0536">>>>, <<"U+0567", <<"U+0537">>>>,
      <<"U+0568", <<"U+0538">>>>, <<"U+0569", <<"U+0539">>>>, <<"U+056A", <<"U+053A">>>>,
      <<"U+056B", <<"U+053B">>>>, <<"U+056C", <<"U+053C">>>>, <<"U+056D", <<"U+053D">>>>,
      <<"U+056E", <<"U+053E">>>>, <<"U+056F", <<"U+053F">>>>, <<"U+0570", <<"U+0540">>>>,
      <<"U+0571", <<"U+0541">>>>, <<"U+0572", <<"U+0542">>>>, <<"U+0573", <<"U+0543">>>>,
      <<"U+0574", <<"U+0544">>>>, <<"U+0575", <<"U+0545">>>>, <<"U+0576", <<"U+0546">>>>,
      <<"U+0577", <<"U+0547">>>>, <<"U+0578", <<"U+0548">>>>, <<"U+0579", <<"U+0549">>>>,
      <<"U+057A", <<"U+054A">>>>, <<"U+057B", <<"U+054B">>>>, <<"U+057C", <<"U+054C">>>>,
      <<"U+057D", <<"U+054D">>>>, <<"U+057E", <<"U+054E">>>>, <<"U+057F", <<"U+054F">>>>,
      <<"ր", <<"U+0550">>>>, <<"ց", <<"U+0551">>>>, <<"ւ", <<"U+0552">>>>, <<"փ", <<"U+0553">>>>,
      <<"ք", <<"U+0554">>>>, <<"օ", <<"U+0555">>>>, <<"ֆ", <<"U+0556">>>>,
      <<"և", <<"U+0535", "U+0552">>>>, <<"ა", <<"Ა">>>>, <<"ბ", <<"Ბ">>>>, <<"გ", <<"Გ">>>>,
      <<"დ", <<"Დ">>>>, <<"ე", <<"Ე">>>>, <<"ვ", <<"Ვ">>>>, <<"ზ", <<"Ზ">>>>, <<"თ", <<"Თ">>>>,
      <<"ი", <<"Ი">>>>, <<"კ", <<"Კ">>>>, <<"ლ", <<"Ლ">>>>, <<"მ", <<"Მ">>>>, <<"ნ", <<"Ნ">>>>,
      <<"ო", <<"Ო">>>>, <<"პ", <<"Პ">>>>, <<"ჟ", <<"Ჟ">>>>, <<"რ", <<"Რ">>>>, <<"ს", <<"Ს">>>>,
      <<"ტ", <<"Ტ">>>>, <<"უ", <<"Უ">>>>, <<"ფ", <<"Ფ">>>>, <<"ქ", <<"Ქ">>>>, <<"ღ", <<"Ღ">>>>,
      <<"ყ", <<"Ყ">>>>, <<"შ", <<"Შ">>>>, <<"ჩ", <<"Ჩ">>>>, <<"ც", <<"Ც">>>>, <<"ძ", <<"Ძ">>>>,
      <<"წ", <<"Წ">>>>, <<"ჭ", <<"Ჭ">>>>, <<"ხ", <<"Ხ">>>>, <<"ჯ", <<"Ჯ">>>>, <<"ჰ", <<"Ჰ">>>>,
      <<"ჱ", <<"Ჱ">>>>, <<"ჲ", <<"Ჲ">>>>, <<"ჳ", <<"Ჳ">>>>, <<"ჴ", <<"Ჴ">>>>, <<"ჵ", <<"Ჵ">>>>,
      <<"ჶ", <<"Ჶ">>>>, <<"ჷ", <<"Ჷ">>>>, <<"ჸ", <<"Ჸ">>>>, <<"ჹ", <<"Ჹ">>>>, <<"ჺ", <<"Ჺ">>>>,
      <<"ჽ", <<"Ჽ">>>>, <<"ჾ", <<"Ჾ">>>>, <<"ჿ", <<"Ჿ">>>>, <<"ᏸ", <<"Ᏸ">>>>, <<"ᏹ", <<"Ᏹ">>>>,
      <<"ᏺ", <<"Ᏺ">>>>, <<"ᏻ", <<"Ᏻ">>>>, <<"ᏼ", <<"Ᏼ">>>>, <<"ᏽ", <<"Ᏽ">>>>,
      <<"ᲀ", <<"U+0412">>>>, <<"ᲁ", <<"U+0414">>>>, <<"ᲂ", <<"U+041E">>>>, <<"ᲃ", <<"U+0421">>>>,
      <<"ᲄ", <<"U+0422">>>>, <<"ᲅ", <<"U+0422">>>>, <<"ᲆ", <<"U+042A">>>>, <<"ᲇ", <<"U+0462">>>>,
      <<"ᲈ", <<"U+A64A">>>>, <<"U+1C8A", <<"U+1C89">>>>, <<"U+1D79", <<"U+A77D">>>>,
      <<"U+1D7D", <<"U+2C63">>>>, <<"ᶎ", <<"Ᶎ">>>>, <<"U+1E01", <<"U+1E00">>>>,
      <<"U+1E03", <<"U+1E02">>>>, <<"U+1E05", <<"U+1E04">>>>, <<"U+1E07", <<"U+1E06">>>>,
      <<"U+1E09", <<"U+1E08">>>>, <<"U+1E0B", <<"U+1E0A">>>>, <<"U+1E0D", <<"U+1E0C">>>>,
      <<"U+1E0F", <<"U+1E0E">>>>, <<"U+1E11", <<"U+1E10">>>>, <<"U+1E13", <<"U+1E12">>>>,
      <<"U+1E15", <<"U+1E14">>>>, <<"U+1E17", <<"U+1E16">>>>, <<"U+1E19", <<"U+1E18">>>>,
      <<"U+1E1B", <<"U+1E1A">>>>, <<"U+1E1D", <<"U+1E1C">>>>, <<"U+1E1F", <<"U+1E1E">>>>,
      <<"U+1E21", <<"U+1E20">>>>, <<"U+1E23", <<"U+1E22">>>>, <<"U+1E25", <<"U+1E24">>>>,
      <<"U+1E27", <<"U+1E26">>>>, <<"U+1E29", <<"U+1E28">>>>, <<"U+1E2B", <<"U+1E2A">>>>,
      <<"U+1E2D", <<"U+1E2C">>>>, <<"U+1E2F", <<"U+1E2E">>>>, <<"U+1E31", <<"U+1E30">>>>,
      <<"U+1E33", <<"U+1E32">>>>, <<"U+1E35", <<"U+1E34">>>>, <<"U+1E37", <<"U+1E36">>>>,
      <<"U+1E39", <<"U+1E38">>>>, <<"U+1E3B", <<"U+1E3A">>>>, <<"U+1E3D", <<"U+1E3C">>>>,
      <<"U+1E3F", <<"U+1E3E">>>>, <<"U+1E41", <<"U+1E40">>>>, <<"U+1E43", <<"U+1E42">>>>,
      <<"U+1E45", <<"U+1E44">>>>, <<"U+1E47", <<"U+1E46">>>>, <<"U+1E49", <<"U+1E48">>>>,
      <<"U+1E4B", <<"U+1E4A">>>>, <<"U+1E4D", <<"U+1E4C">>>>, <<"U+1E4F", <<"U+1E4E">>>>,
      <<"U+1E51", <<"U+1E50">>>>, <<"U+1E53", <<"U+1E52">>>>, <<"U+1E55", <<"U+1E54">>>>,
      <<"U+1E57", <<"U+1E56">>>>, <<"U+1E59", <<"U+1E58">>>>, <<"U+1E5B", <<"U+1E5A">>>>,
      <<"U+1E5D", <<"U+1E5C">>>>, <<"U+1E5F", <<"U+1E5E">>>>, <<"U+1E61", <<"U+1E60">>>>,
      <<"U+1E63", <<"U+1E62">>>>, <<"U+1E65", <<"U+1E64">>>>, <<"U+1E67", <<"U+1E66">>>>,
      <<"U+1E69", <<"U+1E68">>>>, <<"U+1E6B", <<"U+1E6A">>>>, <<"U+1E6D", <<"U+1E6C">>>>,
      <<"U+1E6F", <<"U+1E6E">>>>, <<"U+1E71", <<"U+1E70">>>>, <<"U+1E73", <<"U+1E72">>>>,
      <<"U+1E75", <<"U+1E74">>>>, <<"U+1E77", <<"U+1E76">>>>, <<"U+1E79", <<"U+1E78">>>>,
      <<"U+1E7B", <<"U+1E7A">>>>, <<"U+1E7D", <<"U+1E7C">>>>, <<"U+1E7F", <<"U+1E7E">>>>,
      <<"ẁ", <<"Ẁ">>>>, <<"ẃ", <<"Ẃ">>>>, <<"ẅ", <<"Ẅ">>>>, <<"ẇ", <<"Ẇ">>>>, <<"ẉ", <<"Ẉ">>>>,
      <<"ẋ", <<"Ẋ">>>>, <<"ẍ", <<"Ẍ">>>>, <<"ẏ", <<"Ẏ">>>>, <<"ẑ", <<"Ẑ">>>>, <<"ẓ", <<"Ẓ">>>>,
      <<"ẕ", <<"Ẕ">>>>, <<"ẖ", <<"H", "U+0331">>>>, <<"ẗ", <<"T", "U+0308">>>>,
      <<"ẘ", <<"W", "U+030A">>>>, <<"ẙ", <<"Y", "U+030A">>>>, <<"ẚ", <<"A", "ʾ">>>>,
      <<"ẛ", <<"U+1E60">>>>, <<"ạ", <<"Ạ">>>>, <<"ả", <<"Ả">>>>, <<"ấ", <<"Ấ">>>>,
      <<"ầ", <<"Ầ">>>>, <<"ẩ", <<"Ẩ">>>>, <<"ẫ", <<"Ẫ">>>>, <<"ậ", <<"Ậ">>>>, <<"ắ", <<"Ắ">>>>,
      <<"ằ", <<"Ằ">>>>, <<"ẳ", <<"Ẳ">>>>, <<"ẵ", <<"Ẵ">>>>, <<"ặ", <<"Ặ">>>>, <<"ẹ", <<"Ẹ">>>>,
      <<"ẻ", <<"Ẻ">>>>, <<"ẽ", <<"Ẽ">>>>, <<"ế", <<"Ế">>>>, <<"ề", <<"Ề">>>>, <<"ể", <<"Ể">>>>,
      <<"ễ", <<"Ễ">>>>, <<"ệ", <<"Ệ">>>>, <<"ỉ", <<"Ỉ">>>>, <<"ị", <<"Ị">>>>, <<"ọ", <<"Ọ">>>>,
      <<"ỏ", <<"Ỏ">>>>, <<"ố", <<"Ố">>>>, <<"ồ", <<"Ồ">>>>, <<"ổ", <<"Ổ">>>>, <<"ỗ", <<"Ỗ">>>>,
      <<"ộ", <<"Ộ">>>>, <<"ớ", <<"Ớ">>>>, <<"ờ", <<"Ờ">>>>, <<"ở", <<"Ở">>>>, <<"ỡ", <<"Ỡ">>>>,
      <<"ợ", <<"Ợ">>>>, <<"ụ", <<"Ụ">>>>, <<"ủ", <<"Ủ">>>>, <<"ứ", <<"Ứ">>>>, <<"ừ", <<"Ừ">>>>,
      <<"ử", <<"Ử">>>>, <<"ữ", <<"Ữ">>>>, <<"ự", <<"Ự">>>>, <<"ỳ", <<"Ỳ">>>>, <<"ỵ", <<"Ỵ">>>>,
      <<"ỷ", <<"Ỷ">>>>, <<"ỹ", <<"Ỹ">>>>, <<"ỻ", <<"Ỻ">>>>, <<"ỽ", <<"Ỽ">>>>, <<"ỿ", <<"Ỿ">>>>,
      <<"U+1F00", <<"U+1F08">>>>, <<"U+1F01", <<"U+1F09">>>>, <<"U+1F02", <<"U+1F0A">>>>,
      <<"U+1F03", <<"U+1F0B">>>>, <<"U+1F04", <<"U+1F0C">>>>, <<"U+1F05", <<"U+1F0D">>>>,
      <<"U+1F06", <<"U+1F0E">>>>, <<"U+1F07", <<"U+1F0F">>>>, <<"U+1F10", <<"U+1F18">>>>,
      <<"U+1F11", <<"U+1F19">>>>, <<"U+1F12", <<"U+1F1A">>>>, <<"U+1F13", <<"U+1F1B">>>>,
      <<"U+1F14", <<"U+1F1C">>>>, <<"U+1F15", <<"U+1F1D">>>>, <<"U+1F20", <<"U+1F28">>>>,
      <<"U+1F21", <<"U+1F29">>>>, <<"U+1F22", <<"U+1F2A">>>>, <<"U+1F23", <<"U+1F2B">>>>,
      <<"U+1F24", <<"U+1F2C">>>>, <<"U+1F25", <<"U+1F2D">>>>, <<"U+1F26", <<"U+1F2E">>>>,
      <<"U+1F27", <<"U+1F2F">>>>, <<"U+1F30", <<"U+1F38">>>>, <<"U+1F31", <<"U+1F39">>>>,
      <<"U+1F32", <<"U+1F3A">>>>, <<"U+1F33", <<"U+1F3B">>>>, <<"U+1F34", <<"U+1F3C">>>>,
      <<"U+1F35", <<"U+1F3D">>>>, <<"U+1F36", <<"U+1F3E">>>>, <<"U+1F37", <<"U+1F3F">>>>,
      <<"U+1F40", <<"U+1F48">>>>, <<"U+1F41", <<"U+1F49">>>>, <<"U+1F42", <<"U+1F4A">>>>,
      <<"U+1F43", <<"U+1F4B">>>>, <<"U+1F44", <<"U+1F4C">>>>, <<"U+1F45", <<"U+1F4D">>>>,
      <<"U+1F50", <<"Υ", "U+0313">>>>, <<"U+1F51", <<"U+1F59">>>>,
      <<"U+1F52", <<"Υ", "U+0313", "U+0300">>>>, <<"U+1F53", <<"U+1F5B">>>>,
      <<"U+1F54", <<"Υ", "U+0313", "U+0301">>>>, <<"U+1F55", <<"U+1F5D">>>>,
      <<"U+1F56", <<"Υ", "U+0313", "U+0342">>>>, <<"U+1F57", <<"U+1F5F">>>>,
      <<"U+1F60", <<"U+1F68">>>>, <<"U+1F61", <<"U+1F69">>>>, <<"U+1F62", <<"U+1F6A">>>>,
      <<"U+1F63", <<"U+1F6B">>>>, <<"U+1F64", <<"U+1F6C">>>>, <<"U+1F65", <<"U+1F6D">>>>,
      <<"U+1F66", <<"U+1F6E">>>>, <<"U+1F67", <<"U+1F6F">>>>, <<"U+1F70", <<"Ὰ">>>>,
      <<"U+1F71", <<"Ά">>>>, <<"U+1F72", <<"Ὲ">>>>, <<"U+1F73", <<"Έ">>>>, <<"U+1F74", <<"Ὴ">>>>,
      <<"U+1F75", <<"Ή">>>>, <<"U+1F76", <<"Ὶ">>>>, <<"U+1F77", <<"Ί">>>>, <<"U+1F78", <<"Ὸ">>>>,
      <<"U+1F79", <<"Ό">>>>, <<"U+1F7A", <<"Ὺ">>>>, <<"U+1F7B", <<"Ύ">>>>, <<"U+1F7C", <<"Ὼ">>>>,
      <<"U+1F7D", <<"Ώ">>>>, <<"ᾀ", <<"U+1F08", "Ι">>>>, <<"ᾁ", <<"U+1F09", "Ι">>>>,
      <<"ᾂ", <<"U+1F0A", "Ι">>>>, <<"ᾃ", <<"U+1F0B", "Ι">>>>, <<"ᾄ", <<"U+1F0C", "Ι">>>>,
      <<"ᾅ", <<"U+1F0D", "Ι">>>>, <<"ᾆ", <<"U+1F0E", "Ι">>>>, <<"ᾇ", <<"U+1F0F", "Ι">>>>,
      <<"ᾈ", <<"U+1F08", "Ι">>>>, <<"ᾉ", <<"U+1F09", "Ι">>>>, <<"ᾊ", <<"U+1F0A", "Ι">>>>,
      <<"ᾋ", <<"U+1F0B", "Ι">>>>, <<"ᾌ", <<"U+1F0C", "Ι">>>>, <<"ᾍ", <<"U+1F0D", "Ι">>>>,
      <<"ᾎ", <<"U+1F0E", "Ι">>>>, <<"ᾏ", <<"U+1F0F", "Ι">>>>, <<"ᾐ", <<"U+1F28", "Ι">>>>,
      <<"ᾑ", <<"U+1F29", "Ι">>>>, <<"ᾒ", <<"U+1F2A", "Ι">>>>, <<"ᾓ", <<"U+1F2B", "Ι">>>>,
      <<"ᾔ", <<"U+1F2C", "Ι">>>>, <<"ᾕ", <<"U+1F2D", "Ι">>>>, <<"ᾖ", <<"U+1F2E", "Ι">>>>,
      <<"ᾗ", <<"U+1F2F", "Ι">>>>, <<"ᾘ", <<"U+1F28", "Ι">>>>, <<"ᾙ", <<"U+1F29", "Ι">>>>,
      <<"ᾚ", <<"U+1F2A", "Ι">>>>, <<"ᾛ", <<"U+1F2B", "Ι">>>>, <<"ᾜ", <<"U+1F2C", "Ι">>>>,
      <<"ᾝ", <<"U+1F2D", "Ι">>>>, <<"ᾞ", <<"U+1F2E", "Ι">>>>, <<"ᾟ", <<"U+1F2F", "Ι">>>>,
      <<"ᾠ", <<"U+1F68", "Ι">>>>, <<"ᾡ", <<"U+1F69", "Ι">>>>, <<"ᾢ", <<"U+1F6A", "Ι">>>>,
      <<"ᾣ", <<"U+1F6B", "Ι">>>>, <<"ᾤ", <<"U+1F6C", "Ι">>>>, <<"ᾥ", <<"U+1F6D", "Ι">>>>,
      <<"ᾦ", <<"U+1F6E", "Ι">>>>, <<"ᾧ", <<"U+1F6F", "Ι">>>>, <<"ᾨ", <<"U+1F68", "Ι">>>>,
      <<"ᾩ", <<"U+1F69", "Ι">>>>, <<"ᾪ", <<"U+1F6A", "Ι">>>>, <<"ᾫ", <<"U+1F6B", "Ι">>>>,
      <<"ᾬ", <<"U+1F6C", "Ι">>>>, <<"ᾭ", <<"U+1F6D", "Ι">>>>, <<"ᾮ", <<"U+1F6E", "Ι">>>>,
      <<"ᾯ", <<"U+1F6F", "Ι">>>>, <<"ᾰ", <<"Ᾰ">>>>, <<"ᾱ", <<"Ᾱ">>>>, <<"ᾲ", <<"Ὰ", "Ι">>>>,
      <<"ᾳ", <<"Α", "Ι">>>>, <<"ᾴ", <<"Ά", "Ι">>>>, <<"ᾶ", <<"Α", "U+0342">>>>,
      <<"ᾷ", <<"Α", "U+0342", "Ι">>>>, <<"ᾼ", <<"Α", "Ι">>>>, <<"ι", <<"Ι">>>>,
      <<"ῂ", <<"Ὴ", "Ι">>>>, <<"ῃ", <<"Η", "Ι">>>>, <<"ῄ", <<"Ή", "Ι">>>>,
      <<"ῆ", <<"Η", "U+0342">>>>, <<"ῇ", <<"Η", "U+0342", "Ι">>>>, <<"ῌ", <<"Η", "Ι">>>>,
      <<"ῐ", <<"Ῐ">>>>, <<"ῑ", <<"Ῑ">>>>, <<"ῒ", <<"Ι", "U+0308", "U+0300">>>>,
      <<"ΐ", <<"Ι", "U+0308", "U+0301">>>>, <<"ῖ", <<"Ι", "U+0342">>>>,
      <<"ῗ", <<"Ι", "U+0308", "U+0342">>>>, <<"ῠ", <<"Ῠ">>>>, <<"ῡ", <<"Ῡ">>>>,
      <<"ῢ", <<"Υ", "U+0308", "U+0300">>>>, <<"ΰ", <<"Υ", "U+0308", "U+0301">>>>,
      <<"ῤ", <<"Ρ", "U+0313">>>>, <<"ῥ", <<"Ῥ">>>>, <<"ῦ", <<"Υ", "U+0342">>>>,
      <<"ῧ", <<"Υ", "U+0308", "U+0342">>>>, <<"ῲ", <<"Ὼ", "Ι">>>>, <<"ῳ", <<"Ω", "Ι">>>>,
      <<"ῴ", <<"Ώ", "Ι">>>>, <<"ῶ", <<"Ω", "U+0342">>>>, <<"ῷ", <<"Ω", "U+0342", "Ι">>>>,
      <<"ῼ", <<"Ω", "Ι">>>>, <<"U+214E", <<"U+2132">>>>, <<"U+2170", <<"U+2160">>>>,
      <<"U+2171", <<"U+2161">>>>, <<"U+2172", <<"U+2162">>>>, <<"U+2173", <<"U+2163">>>>,
      <<"U+2174", <<"U+2164">>>>, <<"U+2175", <<"U+2165">>>>, <<"U+2176", <<"U+2166">>>>,
      <<"U+2177", <<"U+2167">>>>, <<"U+2178", <<"U+2168">>>>, <<"U+2179", <<"U+2169">>>>,
      <<"U+217A", <<"U+216A">>>>, <<"U+217B", <<"U+216B">>>>, <<"U+217C", <<"U+216C">>>>,
      <<"U+217D", <<"U+216D">>>>, <<"U+217E", <<"U+216E">>>>, <<"U+217F", <<"U+216F">>>>,
      <<"ↄ", <<"Ↄ">>>>, <<"ⓐ", <<"Ⓐ">>>>, <<"ⓑ", <<"Ⓑ">>>>, <<"ⓒ", <<"Ⓒ">>>>, <<"ⓓ", <<"Ⓓ">>>>,
      <<"ⓔ", <<"Ⓔ">>>>, <<"ⓕ", <<"Ⓕ">>>>, <<"ⓖ", <<"Ⓖ">>>>, <<"ⓗ", <<"Ⓗ">>>>, <<"ⓘ", <<"Ⓘ">>>>,
      <<"ⓙ", <<"Ⓙ">>>>, <<"ⓚ", <<"Ⓚ">>>>, <<"ⓛ", <<"Ⓛ">>>>, <<"ⓜ", <<"Ⓜ">>>>, <<"ⓝ", <<"Ⓝ">>>>,
      <<"ⓞ", <<"Ⓞ">>>>, <<"ⓟ", <<"Ⓟ">>>>, <<"ⓠ", <<"Ⓠ">>>>, <<"ⓡ", <<"Ⓡ">>>>, <<"ⓢ", <<"Ⓢ">>>>,
      <<"ⓣ", <<"Ⓣ">>>>, <<"ⓤ", <<"Ⓤ">>>>, <<"ⓥ", <<"Ⓥ">>>>, <<"ⓦ", <<"Ⓦ">>>>, <<"ⓧ", <<"Ⓧ">>>>,
      <<"ⓨ", <<"Ⓨ">>>>, <<"ⓩ", <<"Ⓩ">>>>, <<"U+2C30", <<"U+2C00">>>>, <<"U+2C31", <<"U+2C01">>>>,
      <<"U+2C32", <<"U+2C02">>>>, <<"U+2C33", <<"U+2C03">>>>, <<"U+2C34", <<"U+2C04">>>>,
      <<"U+2C35", <<"U+2C05">>>>, <<"U+2C36", <<"U+2C06">>>>, <<"U+2C37", <<"U+2C07">>>>,
      <<"U+2C38", <<"U+2C08">>>>, <<"U+2C39", <<"U+2C09">>>>, <<"U+2C3A", <<"U+2C0A">>>>,
      <<"U+2C3B", <<"U+2C0B">>>>, <<"U+2C3C", <<"U+2C0C">>>>, <<"U+2C3D", <<"U+2C0D">>>>,
      <<"U+2C3E", <<"U+2C0E">>>>, <<"U+2C3F", <<"U+2C0F">>>>, <<"U+2C40", <<"U+2C10">>>>,
      <<"U+2C41", <<"U+2C11">>>>, <<"U+2C42", <<"U+2C12">>>>, <<"U+2C43", <<"U+2C13">>>>,
      <<"U+2C44", <<"U+2C14">>>>, <<"U+2C45", <<"U+2C15">>>>, <<"U+2C46", <<"U+2C16">>>>,
      <<"U+2C47", <<"U+2C17">>>>, <<"U+2C48", <<"U+2C18">>>>, <<"U+2C49", <<"U+2C19">>>>,
      <<"U+2C4A", <<"U+2C1A">>>>, <<"U+2C4B", <<"U+2C1B">>>>, <<"U+2C4C", <<"U+2C1C">>>>,
      <<"U+2C4D", <<"U+2C1D">>>>, <<"U+2C4E", <<"U+2C1E">>>>, <<"U+2C4F", <<"U+2C1F">>>>,
      <<"U+2C50", <<"U+2C20">>>>, <<"U+2C51", <<"U+2C21">>>>, <<"U+2C52", <<"U+2C22">>>>,
      <<"U+2C53", <<"U+2C23">>>>, <<"U+2C54", <<"U+2C24">>>>, <<"U+2C55", <<"U+2C25">>>>,
      <<"U+2C56", <<"U+2C26">>>>, <<"U+2C57", <<"U+2C27">>>>, <<"U+2C58", <<"U+2C28">>>>,
      <<"U+2C59", <<"U+2C29">>>>, <<"U+2C5A", <<"U+2C2A">>>>, <<"U+2C5B", <<"U+2C2B">>>>,
      <<"U+2C5C", <<"U+2C2C">>>>, <<"U+2C5D", <<"U+2C2D">>>>, <<"U+2C5E", <<"U+2C2E">>>>,
      <<"U+2C5F", <<"U+2C2F">>>>, <<"U+2C61", <<"U+2C60">>>>, <<"U+2C65", <<"U+023A">>>>,
      <<"U+2C66", <<"U+023E">>>>, <<"U+2C68", <<"U+2C67">>>>, <<"U+2C6A", <<"U+2C69">>>>,
      <<"U+2C6C", <<"U+2C6B">>>>, <<"U+2C73", <<"U+2C72">>>>, <<"U+2C76", <<"U+2C75">>>>,
      <<"ⲁ", <<"Ⲁ">>>>, <<"ⲃ", <<"Ⲃ">>>>, <<"ⲅ", <<"Ⲅ">>>>, <<"ⲇ", <<"Ⲇ">>>>, <<"ⲉ", <<"Ⲉ">>>>,
      <<"ⲋ", <<"Ⲋ">>>>, <<"ⲍ", <<"Ⲍ">>>>, <<"ⲏ", <<"Ⲏ">>>>, <<"ⲑ", <<"Ⲑ">>>>, <<"ⲓ", <<"Ⲓ">>>>,
      <<"ⲕ", <<"Ⲕ">>>>, <<"ⲗ", <<"Ⲗ">>>>, <<"ⲙ", <<"Ⲙ">>>>, <<"ⲛ", <<"Ⲛ">>>>, <<"ⲝ", <<"Ⲝ">>>>,
      <<"ⲟ", <<"Ⲟ">>>>, <<"ⲡ", <<"Ⲡ">>>>, <<"ⲣ", <<"Ⲣ">>>>, <<"ⲥ", <<"Ⲥ">>>>, <<"ⲧ", <<"Ⲧ">>>>,
      <<"ⲩ", <<"Ⲩ">>>>, <<"ⲫ", <<"Ⲫ">>>>, <<"ⲭ", <<"Ⲭ">>>>, <<"ⲯ", <<"Ⲯ">>>>, <<"ⲱ", <<"Ⲱ">>>>,
      <<"ⲳ", <<"Ⲳ">>>>, <<"ⲵ", <<"Ⲵ">>>>, <<"ⲷ", <<"Ⲷ">>>>, <<"ⲹ", <<"Ⲹ">>>>, <<"ⲻ", <<"Ⲻ">>>>,
      <<"ⲽ", <<"Ⲽ">>>>, <<"ⲿ", <<"Ⲿ">>>>, <<"ⳁ", <<"Ⳁ">>>>, <<"ⳃ", <<"Ⳃ">>>>, <<"ⳅ", <<"Ⳅ">>>>,
      <<"ⳇ", <<"Ⳇ">>>>, <<"ⳉ", <<"Ⳉ">>>>, <<"ⳋ", <<"Ⳋ">>>>, <<"ⳍ", <<"Ⳍ">>>>, <<"ⳏ", <<"Ⳏ">>>>,
      <<"ⳑ", <<"Ⳑ">>>>, <<"ⳓ", <<"Ⳓ">>>>, <<"ⳕ", <<"Ⳕ">>>>, <<"ⳗ", <<"Ⳗ">>>>, <<"ⳙ", <<"Ⳙ">>>>,
      <<"ⳛ", <<"Ⳛ">>>>, <<"ⳝ", <<"Ⳝ">>>>, <<"ⳟ", <<"Ⳟ">>>>, <<"ⳡ", <<"Ⳡ">>>>, <<"ⳣ", <<"Ⳣ">>>>,
      <<"ⳬ", <<"Ⳬ">>>>, <<"ⳮ", <<"Ⳮ">>>>, <<"ⳳ", <<"Ⳳ">>>>, <<"U+2D00", <<"Ⴀ">>>>,
      <<"U+2D01", <<"Ⴁ">>>>, <<"U+2D02", <<"Ⴂ">>>>, <<"U+2D03", <<"Ⴃ">>>>, <<"U+2D04", <<"Ⴄ">>>>,
      <<"U+2D05", <<"Ⴅ">>>>, <<"U+2D06", <<"Ⴆ">>>>, <<"U+2D07", <<"Ⴇ">>>>, <<"U+2D08", <<"Ⴈ">>>>,
      <<"U+2D09", <<"Ⴉ">>>>, <<"U+2D0A", <<"Ⴊ">>>>, <<"U+2D0B", <<"Ⴋ">>>>, <<"U+2D0C", <<"Ⴌ">>>>,
      <<"U+2D0D", <<"Ⴍ">>>>, <<"U+2D0E", <<"Ⴎ">>>>, <<"U+2D0F", <<"Ⴏ">>>>, <<"U+2D10", <<"Ⴐ">>>>,
      <<"U+2D11", <<"Ⴑ">>>>, <<"U+2D12", <<"Ⴒ">>>>, <<"U+2D13", <<"Ⴓ">>>>, <<"U+2D14", <<"Ⴔ">>>>,
      <<"U+2D15", <<"Ⴕ">>>>, <<"U+2D16", <<"Ⴖ">>>>, <<"U+2D17", <<"Ⴗ">>>>, <<"U+2D18", <<"Ⴘ">>>>,
      <<"U+2D19", <<"Ⴙ">>>>, <<"U+2D1A", <<"Ⴚ">>>>, <<"U+2D1B", <<"Ⴛ">>>>, <<"U+2D1C", <<"Ⴜ">>>>,
      <<"U+2D1D", <<"Ⴝ">>>>, <<"U+2D1E", <<"Ⴞ">>>>, <<"U+2D1F", <<"Ⴟ">>>>, <<"U+2D20", <<"Ⴠ">>>>,
      <<"U+2D21", <<"Ⴡ">>>>, <<"U+2D22", <<"Ⴢ">>>>, <<"U+2D23", <<"Ⴣ">>>>, <<"U+2D24", <<"Ⴤ">>>>,
      <<"U+2D25", <<"Ⴥ">>>>, <<"U+2D27", <<"Ⴧ">>>>, <<"U+2D2D", <<"Ⴭ">>>>,
      <<"U+A641", <<"U+A640">>>>, <<"U+A643", <<"U+A642">>>>, <<"U+A645", <<"U+A644">>>>,
      <<"U+A647", <<"U+A646">>>>, <<"U+A649", <<"U+A648">>>>, <<"U+A64B", <<"U+A64A">>>>,
      <<"U+A64D", <<"U+A64C">>>>, <<"U+A64F", <<"U+A64E">>>>, <<"U+A651", <<"U+A650">>>>,
      <<"U+A653", <<"U+A652">>>>, <<"U+A655", <<"U+A654">>>>, <<"U+A657", <<"U+A656">>>>,
      <<"U+A659", <<"U+A658">>>>, <<"U+A65B", <<"U+A65A">>>>, <<"U+A65D", <<"U+A65C">>>>,
      <<"U+A65F", <<"U+A65E">>>>, <<"U+A661", <<"U+A660">>>>, <<"U+A663", <<"U+A662">>>>,
      <<"U+A665", <<"U+A664">>>>, <<"U+A667", <<"U+A666">>>>, <<"U+A669", <<"U+A668">>>>,
      <<"U+A66B", <<"U+A66A">>>>, <<"U+A66D", <<"U+A66C">>>>, <<"ꚁ", <<"Ꚁ">>>>, <<"ꚃ", <<"Ꚃ">>>>,
      <<"ꚅ", <<"Ꚅ">>>>, <<"ꚇ", <<"Ꚇ">>>>, <<"ꚉ", <<"Ꚉ">>>>, <<"ꚋ", <<"Ꚋ">>>>, <<"ꚍ", <<"Ꚍ">>>>,
      <<"ꚏ", <<"Ꚏ">>>>, <<"ꚑ", <<"Ꚑ">>>>, <<"ꚓ", <<"Ꚓ">>>>, <<"ꚕ", <<"Ꚕ">>>>, <<"ꚗ", <<"Ꚗ">>>>,
      <<"ꚙ", <<"Ꚙ">>>>, <<"ꚛ", <<"Ꚛ">>>>, <<"U+A723", <<"U+A722">>>>, <<"U+A725", <<"U+A724">>>>,
      <<"U+A727", <<"U+A726">>>>, <<"U+A729", <<"U+A728">>>>, <<"U+A72B", <<"U+A72A">>>>,
      <<"U+A72D", <<"U+A72C">>>>, <<"U+A72F", <<"U+A72E">>>>, <<"U+A733", <<"U+A732">>>>,
      <<"U+A735", <<"U+A734">>>>, <<"U+A737", <<"U+A736">>>>, <<"U+A739", <<"U+A738">>>>,
      <<"U+A73B", <<"U+A73A">>>>, <<"U+A73D", <<"U+A73C">>>>, <<"U+A73F", <<"U+A73E">>>>,
      <<"U+A741", <<"U+A740">>>>, <<"U+A743", <<"U+A742">>>>, <<"U+A745", <<"U+A744">>>>,
      <<"U+A747", <<"U+A746">>>>, <<"U+A749", <<"U+A748">>>>, <<"U+A74B", <<"U+A74A">>>>,
      <<"U+A74D", <<"U+A74C">>>>, <<"U+A74F", <<"U+A74E">>>>, <<"U+A751", <<"U+A750">>>>,
      <<"U+A753", <<"U+A752">>>>, <<"U+A755", <<"U+A754">>>>, <<"U+A757", <<"U+A756">>>>,
      <<"U+A759", <<"U+A758">>>>, <<"U+A75B", <<"U+A75A">>>>, <<"U+A75D", <<"U+A75C">>>>,
      <<"U+A75F", <<"U+A75E">>>>, <<"U+A761", <<"U+A760">>>>, <<"U+A763", <<"U+A762">>>>,
      <<"U+A765", <<"U+A764">>>>, <<"U+A767", <<"U+A766">>>>, <<"U+A769", <<"U+A768">>>>,
      <<"U+A76B", <<"U+A76A">>>>, <<"U+A76D", <<"U+A76C">>>>, <<"U+A76F", <<"U+A76E">>>>,
      <<"U+A77A", <<"U+A779">>>>, <<"U+A77C", <<"U+A77B">>>>, <<"U+A77F", <<"U+A77E">>>>,
      <<"ꞁ", <<"Ꞁ">>>>, <<"ꞃ", <<"Ꞃ">>>>, <<"ꞅ", <<"Ꞅ">>>>, <<"ꞇ", <<"Ꞇ">>>>, <<"ꞌ", <<"Ꞌ">>>>,
      <<"ꞑ", <<"Ꞑ">>>>, <<"ꞓ", <<"Ꞓ">>>>, <<"ꞔ", <<"Ꞔ">>>>, <<"ꞗ", <<"Ꞗ">>>>, <<"ꞙ", <<"Ꞙ">>>>,
      <<"ꞛ", <<"Ꞛ">>>>, <<"ꞝ", <<"Ꞝ">>>>, <<"ꞟ", <<"Ꞟ">>>>, <<"ꞡ", <<"Ꞡ">>>>, <<"ꞣ", <<"Ꞣ">>>>,
      <<"ꞥ", <<"Ꞥ">>>>, <<"ꞧ", <<"Ꞧ">>>>, <<"ꞩ", <<"Ꞩ">>>>, <<"ꞵ", <<"Ꞵ">>>>, <<"ꞷ", <<"Ꞷ">>>>,
      <<"ꞹ", <<"Ꞹ">>>>, <<"ꞻ", <<"Ꞻ">>>>, <<"ꞽ", <<"Ꞽ">>>>, <<"ꞿ", <<"Ꞿ">>>>, <<"ꟁ", <<"Ꟁ">>>>,
      <<"ꟃ", <<"Ꟃ">>>>, <<"ꟈ", <<"Ꟈ">>>>, <<"ꟊ", <<"Ꟊ">>>>, <<"U+A7CD", <<"U+A7CC">>>>,
      <<"U+A7CF", <<"U+A7CE">>>>, <<"ꟑ", <<"Ꟑ">>>>, <<"U+A7D3", <<"U+A7D2">>>>,
      <<"U+A7D5", <<"U+A7D4">>>>, <<"ꟗ", <<"Ꟗ">>>>, <<"ꟙ", <<"Ꟙ">>>>, <<"U+A7DB", <<"U+A7DA">>>>,
      <<"ꟶ", <<"Ꟶ">>>>, <<"U+AB53", <<"Ꭓ">>>>, <<"U+AB70", <<"Ꭰ">>>>, <<"U+AB71", <<"Ꭱ">>>>,
      <<"U+AB72", <<"Ꭲ">>>>, <<"U+AB73", <<"Ꭳ">>>>, <<"U+AB74", <<"Ꭴ">>>>, <<"U+AB75", <<"Ꭵ">>>>,
      <<"U+AB76", <<"Ꭶ">>>>, <<"U+AB77", <<"Ꭷ">>>>, <<"U+AB78", <<"Ꭸ">>>>, <<"U+AB79", <<"Ꭹ">>>>,
      <<"U+AB7A", <<"Ꭺ">>>>, <<"U+AB7B", <<"Ꭻ">>>>, <<"U+AB7C", <<"Ꭼ">>>>, <<"U+AB7D", <<"Ꭽ">>>>,
      <<"U+AB7E", <<"Ꭾ">>>>, <<"U+AB7F", <<"Ꭿ">>>>, <<"ꮀ", <<"Ꮀ">>>>, <<"ꮁ", <<"Ꮁ">>>>,
      <<"ꮂ", <<"Ꮂ">>>>, <<"ꮃ", <<"Ꮃ">>>>, <<"ꮄ", <<"Ꮄ">>>>, <<"ꮅ", <<"Ꮅ">>>>, <<"ꮆ", <<"Ꮆ">>>>,
      <<"ꮇ", <<"Ꮇ">>>>, <<"ꮈ", <<"Ꮈ">>>>, <<"ꮉ", <<"Ꮉ">>>>, <<"ꮊ", <<"Ꮊ">>>>, <<"ꮋ", <<"Ꮋ">>>>,
      <<"ꮌ", <<"Ꮌ">>>>, <<"ꮍ", <<"Ꮍ">>>>, <<"ꮎ", <<"Ꮎ">>>>, <<"ꮏ", <<"Ꮏ">>>>, <<"ꮐ", <<"Ꮐ">>>>,
      <<"ꮑ", <<"Ꮑ">>>>, <<"ꮒ", <<"Ꮒ">>>>, <<"ꮓ", <<"Ꮓ">>>>, <<"ꮔ", <<"Ꮔ">>>>, <<"ꮕ", <<"Ꮕ">>>>,
      <<"ꮖ", <<"Ꮖ">>>>, <<"ꮗ", <<"Ꮗ">>>>, <<"ꮘ", <<"Ꮘ">>>>, <<"ꮙ", <<"Ꮙ">>>>, <<"ꮚ", <<"Ꮚ">>>>,
      <<"ꮛ", <<"Ꮛ">>>>, <<"ꮜ", <<"Ꮜ">>>>, <<"ꮝ", <<"Ꮝ">>>>, <<"ꮞ", <<"Ꮞ">>>>, <<"ꮟ", <<"Ꮟ">>>>,
      <<"ꮠ", <<"Ꮠ">>>>, <<"ꮡ", <<"Ꮡ">>>>, <<"ꮢ", <<"Ꮢ">>>>, <<"ꮣ", <<"Ꮣ">>>>, <<"ꮤ", <<"Ꮤ">>>>,
      <<"ꮥ", <<"Ꮥ">>>>, <<"ꮦ", <<"Ꮦ">>>>, <<"ꮧ", <<"Ꮧ">>>>, <<"ꮨ", <<"Ꮨ">>>>, <<"ꮩ", <<"Ꮩ">>>>,
      <<"ꮪ", <<"Ꮪ">>>>, <<"ꮫ", <<"Ꮫ">>>>, <<"ꮬ", <<"Ꮬ">>>>, <<"ꮭ", <<"Ꮭ">>>>, <<"ꮮ", <<"Ꮮ">>>>,
      <<"ꮯ", <<"Ꮯ">>>>, <<"ꮰ", <<"Ꮰ">>>>, <<"ꮱ", <<"Ꮱ">>>>, <<"ꮲ", <<"Ꮲ">>>>, <<"ꮳ", <<"Ꮳ">>>>,
      <<"ꮴ", <<"Ꮴ">>>>, <<"ꮵ", <<"Ꮵ">>>>, <<"ꮶ", <<"Ꮶ">>>>, <<"ꮷ", <<"Ꮷ">>>>, <<"ꮸ", <<"Ꮸ">>>>,
      <<"ꮹ", <<"Ꮹ">>>>, <<"ꮺ", <<"Ꮺ">>>>, <<"ꮻ", <<"Ꮻ">>>>, <<"ꮼ", <<"Ꮼ">>>>, <<"ꮽ", <<"Ꮽ">>>>,
      <<"ꮾ", <<"Ꮾ">>>>, <<"ꮿ", <<"Ꮿ">>>>, <<"U+FB00", <<"F", "F">>>>, <<"U+FB01", <<"F", "I">>>>,
      <<"U+FB02", <<"F", "L">>>>, <<"U+FB03", <<"F", "F", "I">>>>,
      <<"U+FB04", <<"F", "F", "L">>>>, <<"U+FB05", <<"S", "T">>>>, <<"U+FB06", <<"S", "T">>>>,
      <<"U+FB13", <<"U+0544", "U+0546">>>>, <<"U+FB14", <<"U+0544", "U+0535">>>>,
      <<"U+FB15", <<"U+0544", "U+053B">>>>, <<"U+FB16", <<"U+054E", "U+0546">>>>,
      <<"U+FB17", <<"U+0544", "U+053D">>>>, <<"U+FF41", <<"U+FF21">>>>,
      <<"U+FF42", <<"U+FF22">>>>, <<"U+FF43", <<"U+FF23">>>>, <<"U+FF44", <<"U+FF24">>>>,
      <<"U+FF45", <<"U+FF25">>>>, <<"U+FF46", <<"U+FF26">>>>, <<"U+FF47", <<"U+FF27">>>>,
      <<"U+FF48", <<"U+FF28">>>>, <<"U+FF49", <<"U+FF29">>>>, <<"U+FF4A", <<"U+FF2A">>>>,
      <<"U+FF4B", <<"U+FF2B">>>>, <<"U+FF4C", <<"U+FF2C">>>>, <<"U+FF4D", <<"U+FF2D">>>>,
      <<"U+FF4E", <<"U+FF2E">>>>, <<"U+FF4F", <<"U+FF2F">>>>, <<"U+FF50", <<"U+FF30">>>>,
      <<"U+FF51", <<"U+FF31">>>>, <<"U+FF52", <<"U+FF32">>>>, <<"U+FF53", <<"U+FF33">>>>,
      <<"U+FF54", <<"U+FF34">>>>, <<"U+FF55", <<"U+FF35">>>>, <<"U+FF56", <<"U+FF36">>>>,
      <<"U+FF57", <<"U+FF37">>>>, <<"U+FF58", <<"U+FF38">>>>, <<"U+FF59", <<"U+FF39">>>>,
      <<"U+FF5A", <<"U+FF3A">>>> }

CasedChars == {p[1] : p \in CaseMappings}

UpperOf == [c \in CasedChars |-> (CHOOSE p \in CaseMappings : p[1] = c)[2]]

\* the upper case of one character, as a string
UpperChar(c) ==
    IF \E i \in 1..26 : LowerCase[i] = c
    THEN <<UpperCase[CHOOSE i \in 1..26 : LowerCase[i] = c]>>
    ELSE IF c \in CasedChars THEN UpperOf[c] ELSE <<c>>

\* A character outside the Basic Multilingual Plane is a pair of surrogate
\* characters; SupplementaryCaseMappings has the pairs whose upper case is not
\* the pair itself, each with its upper case.
SupplementaryCaseMappings ==
    { <<<<"U+D801", "U+DC28">>, <<"U+D801", "U+DC00">>>>,
      <<<<"U+D801", "U+DC29">>, <<"U+D801", "U+DC01">>>>,
      <<<<"U+D801", "U+DC2A">>, <<"U+D801", "U+DC02">>>>,
      <<<<"U+D801", "U+DC2B">>, <<"U+D801", "U+DC03">>>>,
      <<<<"U+D801", "U+DC2C">>, <<"U+D801", "U+DC04">>>>,
      <<<<"U+D801", "U+DC2D">>, <<"U+D801", "U+DC05">>>>,
      <<<<"U+D801", "U+DC2E">>, <<"U+D801", "U+DC06">>>>,
      <<<<"U+D801", "U+DC2F">>, <<"U+D801", "U+DC07">>>>,
      <<<<"U+D801", "U+DC30">>, <<"U+D801", "U+DC08">>>>,
      <<<<"U+D801", "U+DC31">>, <<"U+D801", "U+DC09">>>>,
      <<<<"U+D801", "U+DC32">>, <<"U+D801", "U+DC0A">>>>,
      <<<<"U+D801", "U+DC33">>, <<"U+D801", "U+DC0B">>>>,
      <<<<"U+D801", "U+DC34">>, <<"U+D801", "U+DC0C">>>>,
      <<<<"U+D801", "U+DC35">>, <<"U+D801", "U+DC0D">>>>,
      <<<<"U+D801", "U+DC36">>, <<"U+D801", "U+DC0E">>>>,
      <<<<"U+D801", "U+DC37">>, <<"U+D801", "U+DC0F">>>>,
      <<<<"U+D801", "U+DC38">>, <<"U+D801", "U+DC10">>>>,
      <<<<"U+D801", "U+DC39">>, <<"U+D801", "U+DC11">>>>,
      <<<<"U+D801", "U+DC3A">>, <<"U+D801", "U+DC12">>>>,
      <<<<"U+D801", "U+DC3B">>, <<"U+D801", "U+DC13">>>>,
      <<<<"U+D801", "U+DC3C">>, <<"U+D801", "U+DC14">>>>,
      <<<<"U+D801", "U+DC3D">>, <<"U+D801", "U+DC15">>>>,
      <<<<"U+D801", "U+DC3E">>, <<"U+D801", "U+DC16">>>>,
      <<<<"U+D801", "U+DC3F">>, <<"U+D801", "U+DC17">>>>,
      <<<<"U+D801", "U+DC40">>, <<"U+D801", "U+DC18">>>>,
      <<<<"U+D801", "U+DC41">>, <<"U+D801", "U+DC19">>>>,
      <<<<"U+D801", "U+DC42">>, <<"U+D801", "U+DC1A">>>>,
      <<<<"U+D801", "U+DC43">>, <<"U+D801", "U+DC1B">>>>,
      <<<<"U+D801", "U+DC44">>, <<"U+D801", "U+DC1C">>>>,
      <<<<"U+D801", "U+DC45">>, <<"U+D801", "U+DC1D">>>>,
      <<<<"U+D801", "U+DC46">>, <<"U+D801", "U+DC1E">>>>,
      <<<<"U+D801", "U+DC47">>, <<"U+D801", "U+DC1F">>>>,
      <<<<"U+D801", "U+DC48">>, <<"U+D801", "U+DC20">>>>,
      <<<<"U+D801", "U+DC49">>, <<"U+D801", "U+DC21">>>>,
      <<<<"U+D801", "U+DC4A">>, <<"U+D801", "U+DC22">>>>,
      <<<<"U+D801", "U+DC4B">>, <<"U+D801", "U+DC23">>>>,
      <<<<"U+D801", "U+DC4C">>, <<"U+D801", "U+DC24">>>>,
      <<<<"U+D801", "U+DC4D">>, <<"U+D801", "U+DC25">>>>,
      <<<<"U+D801", "U+DC4E">>, <<"U+D801", "U+DC26">>>>,
      <<<<"U+D801", "U+DC4F">>, <<"U+D801", "U+DC27">>>>,
      <<<<"U+D801", "U+DCD8">>, <<"U+D801", "U+DCB0">>>>,
      <<<<"U+D801", "U+DCD9">>, <<"U+D801", "U+DCB1">>>>,
      <<<<"U+D801", "U+DCDA">>, <<"U+D801", "U+DCB2">>>>,
      <<<<"U+D801", "U+DCDB">>, <<"U+D801", "U+DCB3">>>>,
      <<<<"U+D801", "U+DCDC">>, <<"U+D801", "U+DCB4">>>>,
      <<<<"U+D801", "U+DCDD">>, <<"U+D801", "U+DCB5">>>>,
      <<<<"U+D801", "U+DCDE">>, <<"U+D801", "U+DCB6">>>>,
      <<<<"U+D801", "U+DCDF">>, <<"U+D801", "U+DCB7">>>>,
      <<<<"U+D801", "U+DCE0">>, <<"U+D801", "U+DCB8">>>>,
      <<<<"U+D801", "U+DCE1">>, <<"U+D801", "U+DCB9">>>>,
      <<<<"U+D801", "U+DCE2">>, <<"U+D801", "U+DCBA">>>>,
      <<<<"U+D801", "U+DCE3">>, <<"U+D801", "U+DCBB">>>>,
      <<<<"U+D801", "U+DCE4">>, <<"U+D801", "U+DCBC">>>>,
      <<<<"U+D801", "U+DCE5">>, <<"U+D801", "U+DCBD">>>>,
      <<<<"U+D801", "U+DCE6">>, <<"U+D801", "U+DCBE">>>>,
      <<<<"U+D801", "U+DCE7">>, <<"U+D801", "U+DCBF">>>>,
      <<<<"U+D801", "U+DCE8">>, <<"U+D801", "U+DCC0">>>>,
      <<<<"U+D801", "U+DCE9">>, <<"U+D801", "U+DCC1">>>>,
      <<<<"U+D801", "U+DCEA">>, <<"U+D801", "U+DCC2">>>>,
      <<<<"U+D801", "U+DCEB">>, <<"U+D801", "U+DCC3">>>>,
      <<<<"U+D801", "U+DCEC">>, <<"U+D801", "U+DCC4">>>>,
      <<<<"U+D801", "U+DCED">>, <<"U+D801", "U+DCC5">>>>,
      <<<<"U+D801", "U+DCEE">>, <<"U+D801", "U+DCC6">>>>,
      <<<<"U+D801", "U+DCEF">>, <<"U+D801", "U+DCC7">>>>,
      <<<<"U+D801", "U+DCF0">>, <<"U+D801", "U+DCC8">>>>,
      <<<<"U+D801", "U+DCF1">>, <<"U+D801", "U+DCC9">>>>,
      <<<<"U+D801", "U+DCF2">>, <<"U+D801", "U+DCCA">>>>,
      <<<<"U+D801", "U+DCF3">>, <<"U+D801", "U+DCCB">>>>,
      <<<<"U+D801", "U+DCF4">>, <<"U+D801", "U+DCCC">>>>,
      <<<<"U+D801", "U+DCF5">>, <<"U+D801", "U+DCCD">>>>,
      <<<<"U+D801", "U+DCF6">>, <<"U+D801", "U+DCCE">>>>,
      <<<<"U+D801", "U+DCF7">>, <<"U+D801", "U+DCCF">>>>,
      <<<<"U+D801", "U+DCF8">>, <<"U+D801", "U+DCD0">>>>,
      <<<<"U+D801", "U+DCF9">>, <<"U+D801", "U+DCD1">>>>,
      <<<<"U+D801", "U+DCFA">>, <<"U+D801", "U+DCD2">>>>,
      <<<<"U+D801", "U+DCFB">>, <<"U+D801", "U+DCD3">>>>,
      <<<<"U+D801", "U+DD97">>, <<"U+D801", "U+DD70">>>>,
      <<<<"U+D801", "U+DD98">>, <<"U+D801", "U+DD71">>>>,
      <<<<"U+D801", "U+DD99">>, <<"U+D801", "U+DD72">>>>,
      <<<<"U+D801", "U+DD9A">>, <<"U+D801", "U+DD73">>>>,
      <<<<"U+D801", "U+DD9B">>, <<"U+D801", "U+DD74">>>>,
      <<<<"U+D801", "U+DD9C">>, <<"U+D801", "U+DD75">>>>,
      <<<<"U+D801", "U+DD9D">>, <<"U+D801", "U+DD76">>>>,
      <<<<"U+D801", "U+DD9E">>, <<"U+D801", "U+DD77">>>>,
      <<<<"U+D801", "U+DD9F">>, <<"U+D801", "U+DD78">>>>,
      <<<<"U+D801", "U+DDA0">>, <<"U+D801", "U+DD79">>>>,
      <<<<"U+D801", "U+DDA1">>, <<"U+D801", "U+DD7A">>>>,
      <<<<"U+D801", "U+DDA3">>, <<"U+D801", "U+DD7C">>>>,
      <<<<"U+D801", "U+DDA4">>, <<"U+D801", "U+DD7D">>>>,
      <<<<"U+D801", "U+DDA5">>, <<"U+D801", "U+DD7E">>>>,
      <<<<"U+D801", "U+DDA6">>, <<"U+D801", "U+DD7F">>>>,
      <<<<"U+D801", "U+DDA7">>, <<"U+D801", "U+DD80">>>>,
      <<<<"U+D801", "U+DDA8">>, <<"U+D801", "U+DD81">>>>,
      <<<<"U+D801", "U+DDA9">>, <<"U+D801", "U+DD82">>>>,
      <<<<"U+D801", "U+DDAA">>, <<"U+D801", "U+DD83">>>>,
      <<<<"U+D801", "U+DDAB">>, <<"U+D801", "U+DD84">>>>,
      <<<<"U+D801", "U+DDAC">>, <<"U+D801", "U+DD85">>>>,
      <<<<"U+D801", "U+DDAD">>, <<"U+D801", "U+DD86">>>>,
      <<<<"U+D801", "U+DDAE">>, <<"U+D801", "U+DD87">>>>,
      <<<<"U+D801", "U+DDAF">>, <<"U+D801", "U+DD88">>>>,
      <<<<"U+D801", "U+DDB0">>, <<"U+D801", "U+DD89">>>>,
      <<<<"U+D801", "U+DDB1">>, <<"U+D801", "U+DD8A">>>>,
      <<<<"U+D801", "U+DDB3">>, <<"U+D801", "U+DD8C">>>>,
      <<<<"U+D801", "U+DDB4">>, <<"U+D801", "U+DD8D">>>>,
      <<<<"U+D801", "U+DDB5">>, <<"U+D801", "U+DD8E">>>>,
      <<<<"U+D801", "U+DDB6">>, <<"U+D801", "U+DD8F">>>>,
      <<<<"U+D801", "U+DDB7">>, <<"U+D801", "U+DD90">>>>,
      <<<<"U+D801", "U+DDB8">>, <<"U+D801", "U+DD91">>>>,
      <<<<"U+D801", "U+DDB9">>, <<"U+D801", "U+DD92">>>>,
      <<<<"U+D801", "U+DDBB">>, <<"U+D801", "U+DD94">>>>,
      <<<<"U+D801", "U+DDBC">>, <<"U+D801", "U+DD95">>>>,
      <<<<"U+D803", "U+DCC0">>, <<"U+D803", "U+DC80">>>>,
      <<<<"U+D803", "U+DCC1">>, <<"U+D803", "U+DC81">>>>,
      <<<<"U+D803", "U+DCC2">>, <<"U+D803", "U+DC82">>>>,
      <<<<"U+D803", "U+DCC3">>, <<"U+D803", "U+DC83">>>>,
      <<<<"U+D803", "U+DCC4">>, <<"U+D803", "U+DC84">>>>,
      <<<<"U+D803", "U+DCC5">>, <<"U+D803", "U+DC85">>>>,
      <<<<"U+D803", "U+DCC6">>, <<"U+D803", "U+DC86">>>>,
      <<<<"U+D803", "U+DCC7">>, <<"U+D803", "U+DC87">>>>,
      <<<<"U+D803", "U+DCC8">>, <<"U+D803", "U+DC88">>>>,
      <<<<"U+D803", "U+DCC9">>, <<"U+D803", "U+DC89">>>>,
      <<<<"U+D803", "U+DCCA">>, <<"U+D803", "U+DC8A">>>>,
      <<<<"U+D803", "U+DCCB">>, <<"U+D803", "U+DC8B">>>>,
      <<<<"U+D803", "U+DCCC">>, <<"U+D803", "U+DC8C">>>>,
      <<<<"U+D803", "U+DCCD">>, <<"U+D803", "U+DC8D">>>>,
      <<<<"U+D803", "U+DCCE">>, <<"U+D803", "U+DC8E">>>>,
      <<<<"U+D803", "U+DCCF">>, <<"U+D803", "U+DC8F">>>>,
      <<<<"U+D803", "U+DCD0">>, <<"U+D803", "U+DC90">>>>,
      <<<<"U+D803", "U+DCD1">>, <<"U+D803", "U+DC91">>>>,
      <<<<"U+D803", "U+DCD2">>, <<"U+D803", "U+DC92">>>>,
      <<<<"U+D803", "U+DCD3">>, <<"U+D803", "U+DC93">>>>,
      <<<<"U+D803", "U+DCD4">>, <<"U+D803", "U+DC94">>>>,
      <<<<"U+D803", "U+DCD5">>, <<"U+D803", "U+DC95">>>>,
      <<<<"U+D803", "U+DCD6">>, <<"U+D803", "U+DC96">>>>,
      <<<<"U+D803", "U+DCD7">>, <<"U+D803", "U+DC97">>>>,
      <<<<"U+D803", "U+DCD8">>, <<"U+D803", "U+DC98">>>>,
      <<<<"U+D803", "U+DCD9">>, <<"U+D803", "U+DC99">>>>,
      <<<<"U+D803", "U+DCDA">>, <<"U+D803", "U+DC9A">>>>,
      <<<<"U+D803", "U+DCDB">>, <<"U+D803", "U+DC9B">>>>,
      <<<<"U+D803", "U+DCDC">>, <<"U+D803", "U+DC9C">>>>,
      <<<<"U+D803", "U+DCDD">>, <<"U+D803", "U+DC9D">>>>,
      <<<<"U+D803", "U+DCDE">>, <<"U+D803", "U+DC9E">>>>,
      <<<<"U+D803", "U+DCDF">>, <<"U+D803", "U+DC9F">>>>,
      <<<<"U+D803", "U+DCE0">>, <<"U+D803", "U+DCA0">>>>,
      <<<<"U+D803", "U+DCE1">>, <<"U+D803", "U+DCA1">>>>,
      <<<<"U+D803", "U+DCE2">>, <<"U+D803", "U+DCA2">>>>,
      <<<<"U+D803", "U+DCE3">>, <<"U+D803", "U+DCA3">>>>,
      <<<<"U+D803", "U+DCE4">>, <<"U+D803", "U+DCA4">>>>,
      <<<<"U+D803", "U+DCE5">>, <<"U+D803", "U+DCA5">>>>,
      <<<<"U+D803", "U+DCE6">>, <<"U+D803", "U+DCA6">>>>,
      <<<<"U+D803", "U+DCE7">>, <<"U+D803", "U+DCA7">>>>,
      <<<<"U+D803", "U+DCE8">>, <<"U+D803", "U+DCA8">>>>,
      <<<<"U+D803", "U+DCE9">>, <<"U+D803", "U+DCA9">>>>,
      <<<<"U+D803", "U+DCEA">>, <<"U+D803", "U+DCAA">>>>,
      <<<<"U+D803", "U+DCEB">>, <<"U+D803", "U+DCAB">>>>,
      <<<<"U+D803", "U+DCEC">>, <<"U+D803", "U+DCAC">>>>,
      <<<<"U+D803", "U+DCED">>, <<"U+D803", "U+DCAD">>>>,
      <<<<"U+D803", "U+DCEE">>, <<"U+D803", "U+DCAE">>>>,
      <<<<"U+D803", "U+DCEF">>, <<"U+D803", "U+DCAF">>>>,
      <<<<"U+D803", "U+DCF0">>, <<"U+D803", "U+DCB0">>>>,
      <<<<"U+D803", "U+DCF1">>, <<"U+D803", "U+DCB1">>>>,
      <<<<"U+D803", "U+DCF2">>, <<"U+D803", "U+DCB2">>>>,
      <<<<"U+D803", "U+DD70">>, <<"U+D803", "U+DD50">>>>,
      <<<<"U+D803", "U+DD71">>, <<"U+D803", "U+DD51">>>>,
      <<<<"U+D803", "U+DD72">>, <<"U+D803", "U+DD52">>>>,
      <<<<"U+D803", "U+DD73">>, <<"U+D803", "U+DD53">>>>,
      <<<<"U+D803", "U+DD74">>, <<"U+D803", "U+DD54">>>>,
      <<<<"U+D803", "U+DD75">>, <<"U+D803", "U+DD55">>>>,
      <<<<"U+D803", "U+DD76">>, <<"U+D803", "U+DD56">>>>,
      <<<<"U+D803", "U+DD77">>, <<"U+D803", "U+DD57">>>>,
      <<<<"U+D803", "U+DD78">>, <<"U+D803", "U+DD58">>>>,
      <<<<"U+D803", "U+DD79">>, <<"U+D803", "U+DD59">>>>,
      <<<<"U+D803", "U+DD7A">>, <<"U+D803", "U+DD5A">>>>,
      <<<<"U+D803", "U+DD7B">>, <<"U+D803", "U+DD5B">>>>,
      <<<<"U+D803", "U+DD7C">>, <<"U+D803", "U+DD5C">>>>,
      <<<<"U+D803", "U+DD7D">>, <<"U+D803", "U+DD5D">>>>,
      <<<<"U+D803", "U+DD7E">>, <<"U+D803", "U+DD5E">>>>,
      <<<<"U+D803", "U+DD7F">>, <<"U+D803", "U+DD5F">>>>,
      <<<<"U+D803", "U+DD80">>, <<"U+D803", "U+DD60">>>>,
      <<<<"U+D803", "U+DD81">>, <<"U+D803", "U+DD61">>>>,
      <<<<"U+D803", "U+DD82">>, <<"U+D803", "U+DD62">>>>,
      <<<<"U+D803", "U+DD83">>, <<"U+D803", "U+DD63">>>>,
      <<<<"U+D803", "U+DD84">>, <<"U+D803", "U+DD64">>>>,
      <<<<"U+D803", "U+DD85">>, <<"U+D803", "U+DD65">>>>,
      <<<<"U+D806", "U+DCC0">>, <<"U+D806", "U+DCA0">>>>,
      <<<<"U+D806", "U+DCC1">>, <<"U+D806", "U+DCA1">>>>,
      <<<<"U+D806", "U+DCC2">>, <<"U+D806", "U+DCA2">>>>,
      <<<<"U+D806", "U+DCC3">>, <<"U+D806", "U+DCA3">>>>,
      <<<<"U+D806", "U+DCC4">>, <<"U+D806", "U+DCA4">>>>,
      <<<<"U+D806", "U+DCC5">>, <<"U+D806", "U+DCA5">>>>,
      <<<<"U+D806", "U+DCC6">>, <<"U+D806", "U+DCA6">>>>,
      <<<<"U+D806", "U+DCC7">>, <<"U+D806", "U+DCA7">>>>,
      <<<<"U+D806", "U+DCC8">>, <<"U+D806", "U+DCA8">>>>,
      <<<<"U+D806", "U+DCC9">>, <<"U+D806", "U+DCA9">>>>,
      <<<<"U+D806", "U+DCCA">>, <<"U+D806", "U+DCAA">>>>,
      <<<<"U+D806", "U+DCCB">>, <<"U+D806", "U+DCAB">>>>,
      <<<<"U+D806", "U+DCCC">>, <<"U+D806", "U+DCAC">>>>,
      <<<<"U+D806", "U+DCCD">>, <<"U+D806", "U+DCAD">>>>,
      <<<<"U+D806", "U+DCCE">>, <<"U+D806", "U+DCAE">>>>,
      <<<<"U+D806", "U+DCCF">>, <<"U+D806", "U+DCAF">>>>,
      <<<<"U+D806", "U+DCD0">>, <<"U+D806", "U+DCB0">>>>,
      <<<<"U+D806", "U+DCD1">>, <<"U+D806", "U+DCB1">>>>,
      <<<<"U+D806", "U+DCD2">>, <<"U+D806", "U+DCB2">>>>,
      <<<<"U+D806", "U+DCD3">>, <<"U+D806", "U+DCB3">>>>,
      <<<<"U+D806", "U+DCD4">>, <<"U+D806", "U+DCB4">>>>,
      <<<<"U+D806", "U+DCD5">>, <<"U+D806", "U+DCB5">>>>,
      <<<<"U+D806", "U+DCD6">>, <<"U+D806", "U+DCB6">>>>,
      <<<<"U+D806", "U+DCD7">>, <<"U+D806", "U+DCB7">>>>,
      <<<<"U+D806", "U+DCD8">>, <<"U+D806", "U+DCB8">>>>,
      <<<<"U+D806", "U+DCD9">>, <<"U+D806", "U+DCB9">>>>,
      <<<<"U+D806", "U+DCDA">>, <<"U+D806", "U+DCBA">>>>,
      <<<<"U+D806", "U+DCDB">>, <<"U+D806", "U+DCBB">>>>,
      <<<<"U+D806", "U+DCDC">>, <<"U+D806", "U+DCBC">>>>,
      <<<<"U+D806", "U+DCDD">>, <<"U+D806", "U+DCBD">>>>,
      <<<<"U+D806", "U+DCDE">>, <<"U+D806", "U+DCBE">>>>,
      <<<<"U+D806", "U+DCDF">>, <<"U+D806", "U+DCBF">>>>,
      <<<<"U+D81B", "U+DE60">>, <<"U+D81B", "U+DE40">>>>,
      <<<<"U+D81B", "U+DE61">>, <<"U+D81B", "U+DE41">>>>,
      <<<<"U+D81B", "U+DE62">>, <<"U+D81B", "U+DE42">>>>,
      <<<<"U+D81B", "U+DE63">>, <<"U+D81B", "U+DE43">>>>,
      <<<<"U+D81B", "U+DE64">>, <<"U+D81B", "U+DE44">>>>,
      <<<<"U+D81B", "U+DE65">>, <<"U+D81B", "U+DE45">>>>,
      <<<<"U+D81B", "U+DE66">>, <<"U+D81B", "U+DE46">>>>,
      <<<<"U+D81B", "U+DE67">>, <<"U+D81B", "U+DE47">>>>,
      <<<<"U+D81B", "U+DE68">>, <<"U+D81B", "U+DE48">>>>,
      <<<<"U+D81B", "U+DE69">>, <<"U+D81B", "U+DE49">>>>,
      <<<<"U+D81B", "U+DE6A">>, <<"U+D81B", "U+DE4A">>>>,
      <<<<"U+D81B", "U+DE6B">>, <<"U+D81B", "U+DE4B">>>>,
      <<<<"U+D81B", "U+DE6C">>, <<"U+D81B", "U+DE4C">>>>,
      <<<<"U+D81B", "U+DE6D">>, <<"U+D81B", "U+DE4D">>>>,
      <<<<"U+D81B", "U+DE6E">>, <<"U+D81B", "U+DE4E">>>>,
      <<<<"U+D81B", "U+DE6F">>, <<"U+D81B", "U+DE4F">>>>,
      <<<<"U+D81B", "U+DE70">>, <<"U+D81B", "U+DE50">>>>,
      <<<<"U+D81B", "U+DE71">>, <<"U+D81B", "U+DE51">>>>,
      <<<<"U+D81B", "U+DE72">>, <<"U+D81B", "U+DE52">>>>,
      <<<<"U+D81B", "U+DE73">>, <<"U+D81B", "U+DE53">>>>,
      <<<<"U+D81B", "U+DE74">>, <<"U+D81B", "U+DE54">>>>,
      <<<<"U+D81B", "U+DE75">>, <<"U+D81B", "U+DE55">>>>,
      <<<<"U+D81B", "U+DE76">>, <<"U+D81B", "U+DE56">>>>,
      <<<<"U+D81B", "U+DE77">>, <<"U+D81B", "U+DE57">>>>,
      <<<<"U+D81B", "U+DE78">>, <<"U+D81B", "U+DE58">>>>,
      <<<<"U+D81B", "U+DE79">>, <<"U+D81B", "U+DE59">>>>,
      <<<<"U+D81B", "U+DE7A">>, <<"U+D81B", "U+DE5A">>>>,
      <<<<"U+D81B", "U+DE7B">>, <<"U+D81B", "U+DE5B">>>>,
      <<<<"U+D81B", "U+DE7C">>, <<"U+D81B", "U+DE5C">>>>,
      <<<<"U+D81B", "U+DE7D">>, <<"U+D81B", "U+DE5D">>>>,
      <<<<"U+D81B", "U+DE7E">>, <<"U+D81B", "U+DE5E">>>>,
      <<<<"U+D81B", "U+DE7F">>, <<"U+D81B", "U+DE5F">>>>,
      <<<<"U+D81B", "U+DEBB">>, <<"U+D81B", "U+DEA0">>>>,
      <<<<"U+D81B", "U+DEBC">>, <<"U+D81B", "U+DEA1">>>>,
      <<<<"U+D81B", "U+DEBD">>, <<"U+D81B", "U+DEA2">>>>,
      <<<<"U+D81B", "U+DEBE">>, <<"U+D81B", "U+DEA3">>>>,
      <<<<"U+D81B", "U+DEBF">>, <<"U+D81B", "U+DEA4">>>>,
      <<<<"U+D81B", "U+DEC0">>, <<"U+D81B", "U+DEA5">>>>,
      <<<<"U+D81B", "U+DEC1">>, <<"U+D81B", "U+DEA6">>>>,
      <<<<"U+D81B", "U+DEC2">>, <<"U+D81B", "U+DEA7">>>>,
      <<<<"U+D81B", "U+DEC3">>, <<"U+D81B", "U+DEA8">>>>,
      <<<<"U+D81B", "U+DEC4">>, <<"U+D81B", "U+DEA9">>>>,
      <<<<"U+D81B", "U+DEC5">>, <<"U+D81B", "U+DEAA">>>>,
      <<<<"U+D81B", "U+DEC6">>, <<"U+D81B", "U+DEAB">>>>,
      <<<<"U+D81B", "U+DEC7">>, <<"U+D81B", "U+DEAC">>>>,
      <<<<"U+D81B", "U+DEC8">>, <<"U+D81B", "U+DEAD">>>>,
      <<<<"U+D81B", "U+DEC9">>, <<"U+D81B", "U+DEAE">>>>,
      <<<<"U+D81B", "U+DECA">>, <<"U+D81B", "U+DEAF">>>>,
      <<<<"U+D81B", "U+DECB">>, <<"U+D81B", "U+DEB0">>>>,
      <<<<"U+D81B", "U+DECC">>, <<"U+D81B", "U+DEB1">>>>,
      <<<<"U+D81B", "U+DECD">>, <<"U+D81B", "U+DEB2">>>>,
      <<<<"U+D81B", "U+DECE">>, <<"U+D81B", "U+DEB3">>>>,
      <<<<"U+D81B", "U+DECF">>, <<"U+D81B", "U+DEB4">>>>,
      <<<<"U+D81B", "U+DED0">>, <<"U+D81B", "U+DEB5">>>>,
      <<<<"U+D81B", "U+DED1">>, <<"U+D81B", "U+DEB6">>>>,
      <<<<"U+D81B", "U+DED2">>, <<"U+D81B", "U+DEB7">>>>,
      <<<<"U+D81B", "U+DED3">>, <<"U+D81B", "U+DEB8">>>>,
      <<<<"U+D83A", "U+DD22">>, <<"U+D83A", "U+DD00">>>>,
      <<<<"U+D83A", "U+DD23">>, <<"U+D83A", "U+DD01">>>>,
      <<<<"U+D83A", "U+DD24">>, <<"U+D83A", "U+DD02">>>>,
      <<<<"U+D83A", "U+DD25">>, <<"U+D83A", "U+DD03">>>>,
      <<<<"U+D83A", "U+DD26">>, <<"U+D83A", "U+DD04">>>>,
      <<<<"U+D83A", "U+DD27">>, <<"U+D83A", "U+DD05">>>>,
      <<<<"U+D83A", "U+DD28">>, <<"U+D83A", "U+DD06">>>>,
      <<<<"U+D83A", "U+DD29">>, <<"U+D83A", "U+DD07">>>>,
      <<<<"U+D83A", "U+DD2A">>, <<"U+D83A", "U+DD08">>>>,
      <<<<"U+D83A", "U+DD2B">>, <<"U+D83A", "U+DD09">>>>,
      <<<<"U+D83A", "U+DD2C">>, <<"U+D83A", "U+DD0A">>>>,
      <<<<"U+D83A", "U+DD2D">>, <<"U+D83A", "U+DD0B">>>>,
      <<<<"U+D83A", "U+DD2E">>, <<"U+D83A", "U+DD0C">>>>,
      <<<<"U+D83A", "U+DD2F">>, <<"U+D83A", "U+DD0D">>>>,
      <<<<"U+D83A", "U+DD30">>, <<"U+D83A", "U+DD0E">>>>,
      <<<<"U+D83A", "U+DD31">>, <<"U+D83A", "U+DD0F">>>>,
      <<<<"U+D83A", "U+DD32">>, <<"U+D83A", "U+DD10">>>>,
      <<<<"U+D83A", "U+DD33">>, <<"U+D83A", "U+DD11">>>>,
      <<<<"U+D83A", "U+DD34">>, <<"U+D83A", "U+DD12">>>>,
      <<<<"U+D83A", "U+DD35">>, <<"U+D83A", "U+DD13">>>>,
      <<<<"U+D83A", "U+DD36">>, <<"U+D83A", "U+DD14">>>>,
      <<<<"U+D83A", "U+DD37">>, <<"U+D83A", "U+DD15">>>>,
      <<<<"U+D83A", "U+DD38">>, <<"U+D83A", "U+DD16">>>>,
      <<<<"U+D83A", "U+DD39">>, <<"U+D83A", "U+DD17">>>>,
      <<<<"U+D83A", "U+DD3A">>, <<"U+D83A", "U+DD18">>>>,
      <<<<"U+D83A", "U+DD3B">>, <<"U+D83A", "U+DD19">>>>,
      <<<<"U+D83A", "U+DD3C">>, <<"U+D83A", "U+DD1A">>>>,
      <<<<"U+D83A", "U+DD3D">>, <<"U+D83A", "U+DD1B">>>>,
      <<<<"U+D83A", "U+DD3E">>, <<"U+D83A", "U+DD1C">>>>,
      <<<<"U+D83A", "U+DD3F">>, <<"U+D83A", "U+DD1D">>>>,
      <<<<"U+D83A", "U+DD40">>, <<"U+D83A", "U+DD1E">>>>,
      <<<<"U+D83A", "U+DD41">>, <<"U+D83A", "U+DD1F">>>>,
      <<<<"U+D83A", "U+DD42">>, <<"U+D83A", "U+DD20">>>>,
      <<<<"U+D83A", "U+DD43">>, <<"U+D83A", "U+DD21">>>> }

SupplementaryCased == {p[1] : p \in SupplementaryCaseMappings}

SupplementaryUpperOf ==
    [c \in SupplementaryCased |-> (CHOOSE p \in SupplementaryCaseMappings : p[1] = c)[2]]

\* the upper case of s from position i on, one code point at a time
RECURSIVE UpperFrom(_, _)
UpperFrom(s, i) ==
    IF i > Len(s) THEN <<>>
    ELSE IF i < Len(s) /\ <<s[i], s[i + 1]>> \in SupplementaryCased
    THEN SupplementaryUpperOf[<<s[i], s[i + 1]>>] \o UpperFrom(s, i + 2)
    ELSE UpperChar(s[i]) \o UpperFrom(s, i + 1)

\* String.prototype.toUpperCase
toUpperCase(string) ==
    CHOOSE r \in { UpperFrom(s, 1) : s \in {string} } : TRUE

\* Canonicalize of a regular expression with the i flag and without the u
\* flag: the character's upper case when that is one character, except that
\* a character outside ASCII is not taken to an ASCII one
Canonicalize(c) ==
    LET u == UpperChar(c)
        letters == {LowerCase[i] : i \in 1..26} \cup {UpperCase[i] : i \in 1..26}
    IN  IF Len(u) # 1 THEN c
        ELSE IF u[1] \in letters /\ c \notin letters THEN c
        ELSE u[1]

\* query.split("\n") followed by lines[lines.length - 1]
lastLine(query) ==
    CHOOSE r \in { LET nls == {i \in 1..Len(s) : s[i] = NL}
                   IN  IF nls = {} THEN s ELSE SubSeq(s, Max(nls) + 1, Len(s))
                   : s \in {query} } : TRUE

\* the lines of s, as query.split("\n") gives them
RECURSIVE split(_)
split(s) ==
    LET nls == {i \in 1..Len(s) : s[i] = NL}
    IN  IF nls = {} THEN <<s>>
        ELSE <<SubSeq(s, 1, Min(nls) - 1)>> \o split(SubSeq(s, Min(nls) + 1, Len(s)))

----------------------------------------------------------------------------
(* Token types and tokens *)

tokenTypes ==
    [ WHITESPACE                   |-> "whitespace",
      WORD                         |-> "word",
      RESERVED                     |-> "reserved",
      RESERVED_TOPLEVEL            |-> "reserved-toplevel",
      RESERVED_NEWLINE             |-> "reserved-newline",
      RESERVED_NEWLINE_WITH_INDENT |-> "reserved-newline-with-indent",
      OPERATOR                     |-> "operator",
      OPEN_PAREN                   |-> "open-paren",
      CLOSE_PAREN                  |-> "close-paren",
      LINE_COMMENT                 |-> "line-comment",
      BLOCK_COMMENT                |-> "block-comment",
      PLACEHOLDER                  |-> "placeholder" ]

Tok(t, v) == [type |-> t, value |-> v]

tWS      == Tok(tokenTypes.WHITESPACE, <<" ">>)
tNLWS    == Tok(tokenTypes.WHITESPACE, <<"\n", " ", " ">>)
tLineC   == Tok(tokenTypes.LINE_COMMENT, <<"-", "-", "c", "\n">>)
tBlockC  == Tok(tokenTypes.BLOCK_COMMENT, <<"/", "*", "\n", "\n", "*", "/">>)
tBlockC1 == Tok(tokenTypes.BLOCK_COMMENT, <<"/", "*", "c", " ", "*", "/">>)
tSELECT  == Tok(tokenTypes.RESERVED_TOPLEVEL, <<"S", "E", "L", "E", "C", "T">>)
tFROM    == Tok(tokenTypes.RESERVED_TOPLEVEL, <<"F", "R", "O", "M">>)
tWHERE   == Tok(tokenTypes.RESERVED_TOPLEVEL, <<"W", "H", "E", "R", "E">>)
tLIMIT   == Tok(tokenTypes.RESERVED_TOPLEVEL, <<"L", "I", "M", "I", "T">>)
tLimitLc == Tok(tokenTypes.RESERVED_TOPLEVEL, <<"l", "i", "m", "i", "t">>)
tGROUPBY == Tok(tokenTypes.RESERVED_TOPLEVEL,
                <<"G", "R", "O", "U", "P", " ", "\n", "B", "Y">>)
\* GROUP BY written with a vertical tab (U+000B) and a no-break space (U+00A0)
tGroupBy2 == Tok(tokenTypes.RESERVED_TOPLEVEL,
                 <<"G", "R", "O", "U", "P", "", " ", "B", "Y">>)
tJOIN    == Tok(tokenTypes.RESERVED_NEWLINE, <<"J", "O", "I", "N">>)
\* its upper case is CROSS JOIN, two characters longer
tCrossJoin == Tok(tokenTypes.RESERVED_NEWLINE,
                  <<"c", "r", "o", "ß", " ", "j", "o", "i", "n">>)
tAND     == Tok(tokenTypes.RESERVED_NEWLINE, <<"A", "N", "D">>)
tON      == Tok(tokenTypes.RESERVED_NEWLINE_WITH_INDENT, <<"O", "N">>)
tAS      == Tok(tokenTypes.RESERVED, <<"A", "S">>)
tOpen    == Tok(tokenTypes.OPEN_PAREN, <<"(">>)
tClose   == Tok(tokenTypes.CLOSE_PAREN, <<")">>)
tQ       == Tok(tokenTypes.PLACEHOLDER, <<"?">>)
tComma   == Tok(tokenTypes.OPERATOR, <<",">>)
tColon   == Tok(tokenTypes.OPERATOR, <<":">>)
tPeriod  == Tok(tokenTypes.OPERATOR, <<".">>)
tSemi    == Tok(tokenTypes.OPERATOR, <<";">>)
tEq      == Tok(tokenTypes.OPERATOR, <<"=">>)
tStar    == Tok(tokenTypes.OPERATOR, <<"*">>)
tA       == Tok(tokenTypes.WORD, <<"a">>)
tB       == Tok(tokenTypes.WORD, <<"b">>)
tT       == Tok(tokenTypes.WORD, <<"t">>)
\* words with a form feed at an end
tAFf     == Tok(tokenTypes.WORD, <<"a", "\f">>)
tFfA     == Tok(tokenTypes.WORD, <<"\f", "a">>)
tCOUNT   == Tok(tokenTypes.WORD, <<"C", "O", "U", "N", "T">>)
tN10     == Tok(tokenTypes.WORD, <<"1", "0">>)
tN20     == Tok(tokenTypes.WORD, <<"2", "0">>)
\* a word long enough to push a parenthesized region over the inline threshold
tLong    == Tok(tokenTypes.WORD, repeat(<<"x">>, 49))

\* the tokens from which sequences up to MaxLen are drawn
Vocabulary ==
    { tWS, tLineC, tBlockC, tSELECT, tLIMIT, tJOIN, tON, tAS,
      tOpen, tClose, tQ, tComma, tSemi, tA }

\* longer token sequences: the spec's examples and the cases of the claims
Examples ==
    { <<tSELECT, tA, tComma, tB, tFROM, tT>>,
      <<tSELECT, tWS, tA, tComma, tWS, tB, tWS, tFROM, tWS, tT>>,
      <<tSELECT, tStar, tFROM, tT, tLIMIT, tN10, tComma, tN20>>,
      <<tSELECT, tA, tComma, tLIMIT, tN10, tComma, tN20>>,
      <<tSELECT, tA, tLimitLc, tN10, tComma, tN20>>,
      <<tSELECT, tCOUNT, tOpen, tStar, tClose>>,
      <<tSELECT, tStar, tFROM, tT, tWHERE, tA, tEq, tQ>>,
      <<tSELECT, tNLWS, tA, tWS, tOpen, tB, tComma, tB, tClose>>,
      <<tSELECT, tA, tPeriod, tB, tColon, tB, tAND, tB, tGROUPBY, tA>>,
      <<tSELECT, tOpen, tLong, tClose, tSemi, tSELECT>>,
      <<tA, tOpen, tA, tOpen, tB, tClose, tA, tClose, tFROM>>,
      <<tSELECT, tA, tWS, tLineC, tFROM, tT>>,
      <<tSELECT, tBlockC1, tA, tComma, tLineC, tB>>,
      <<tA, tClose, tClose, tJOIN, tOpen, tOpen, tSELECT>>,
      <<tSELECT, tA, tON, tA, tON, tA, tFROM, tT>>,
      <<tCOUNT, tOpen, tA, tA, tA, tClose>>,
      <<tCOUNT, tCOUNT, tClose>>,
      <<tCOUNT, tCOUNT, tBlockC1, tA>>,
      <<tCOUNT, tCOUNT, tComma, tAS, tSELECT>>,
      <<tSELECT, tOpen, tON, tA, tComma, tAS>>,
      <<tOpen, tSELECT, tCOUNT, tOpen, tCOUNT, tOpen, tA, tClose, tClose, tClose>>,
      <<tAFf, tSemi>>,
      <<tFfA, tAFf>>,
      <<tSELECT, tA, tON, tA, tCrossJoin, tT>>,
      <<tGroupBy2, tA, tBlockC>> }

RECURSIVE SeqsUpTo(_, _)
SeqsUpTo(S, n) ==
    IF n = 0 THEN {<<>>}
    ELSE LET shorter == SeqsUpTo(S, n - 1)
         IN  shorter \cup {Append(s, x) : s \in shorter, x \in S}

TokenSeqs == SeqsUpTo(Vocabulary, MaxLen) \cup Examples

FairTokenSeqs == SeqsUpTo(Vocabulary, MaxFairLen) \cup Examples

\* the token sequences of a second or later call on the same object
LaterTokenSeqs == SeqsUpTo(Vocabulary, 1)

\* new Formatter(cfg, tokenizer): the configurations tried
NoParams == <<>>
Configs ==
    { [indent |-> <<" ", " ">>, params |-> NoParams,  maxCharacterPerLine |-> 0],
      [indent |-> <<" ", " ">>, params |-> <<<<"1">>>>, maxCharacterPerLine |-> 0],
      [indent |-> <<" ", " ">>, params |-> NoParams,  maxCharacterPerLine |-> 8],
      [indent |-> <<"$", "$">>, params |-> NoParams,  maxCharacterPerLine |-> 0] }

----------------------------------------------------------------------------
(* Indentation: four counters and the indent unit *)

INDENT_DEFAULT == <<" ", " ">>

\* new Indentation(indent)
NewIndentation(indent) ==
    [ indent            |-> IF indent = <<>> THEN INDENT_DEFAULT ELSE indent,
      toplevel          |-> 0,
      block             |-> 0,
      newLineWithIndent |-> 0,
      maxCharacter      |-> 0 ]

Levels(ind) == ind.toplevel + ind.block + ind.newLineWithIndent + ind.maxCharacter

getIndent(ind) == repeat(ind.indent, Levels(ind))

\* mutant: a decrement that does not stop at zero
DecrementBelowZero(n) == n - 1

Decrement(n) == IF n > 0 THEN n - 1 ELSE 0

increaseToplevel(ind) == [ind EXCEPT !.toplevel = @ + 1]
increaseBlockLevel(ind) == [ind EXCEPT !.block = @ + 1]
increaseNewLineWithIndentLevel(ind) == [ind EXCEPT !.newLineWithIndent = @ + 1]
increaseMaxCharacterLevel(ind) == [ind EXCEPT !.maxCharacter = @ + 1]
decreaseTopLevel(ind) == [ind EXCEPT !.toplevel = Decrement(@)]
decreaseBlockLevel(ind) == [ind EXCEPT !.block = Decrement(@)]
decreaseNewLineWithIndentLevel(ind) == [ind EXCEPT !.newLineWithIndent = Decrement(@)]
decreaseAllMaxCharacterLevel(ind) == [ind EXCEPT !.maxCharacter = 0]

----------------------------------------------------------------------------
(* InlineBlock: the inline-mode flag and the forward scan *)

INLINE_MAX_LENGTH == 50

NewInlineBlock == [active |-> FALSE]

isActive(ib) == ib.active

end(ib) == [ib EXCEPT !.active = FALSE]

\* opening minus closing parentheses among toks[from..to]
Depth(toks, from, to) ==
    Cardinality({k \in from..to : toks[k].type = tokenTypes.OPEN_PAREN})
    - Cardinality({k \in from..to : toks[k].type = tokenTypes.CLOSE_PAREN})

\* positions of the closing parenthesis that structurally matches toks[i]
MatchingClose(toks, i) ==
    {j \in (i + 1)..Len(toks) :
        /\ toks[j].type = tokenTypes.CLOSE_PAREN
        /\ Depth(toks, i, j) = 0
        /\ \A k \in (i + 1)..(j - 1) : Depth(toks, i, k) > 0}

isForbiddenToken(token) ==
    token.type \in { tokenTypes.RESERVED_TOPLEVEL, tokenTypes.RESERVED_NEWLINE,
                     tokenTypes.LINE_COMMENT, tokenTypes.BLOCK_COMMENT }

RECURSIVE SumLen(_, _, _)
SumLen(toks, from, to) ==
    IF from > to THEN 0 ELSE Len(toks[from].value) + SumLen(toks, from + 1, to)

isInlineBlock(tokenArray, i) ==
    \E toks \in {tokenArray} :
        LET m == MatchingClose(toks, i)
        IN  /\ m # {}
            /\ \A k \in (i + 1)..(Min(m) - 1) : ~isForbiddenToken(toks[k])
            /\ SumLen(toks, i, Min(m)) <= INLINE_MAX_LENGTH

beginIfPossible(ib, toks, i) ==
    IF isInlineBlock(toks, i) THEN [ib EXCEPT !.active = TRUE] ELSE ib

----------------------------------------------------------------------------
(* Params: placeholder substitution *)

NewParams == [index |-> 1]

\* params.get(token): the substituted text and the Params object afterwards
paramsGet(self, token) ==
    IF self.cfg.params # NoParams /\ self.params.index <= Len(self.cfg.params)
    THEN [ text   |-> self.cfg.params[self.params.index],
           params |-> [self.params EXCEPT !.index = @ + 1] ]
    ELSE [ text |-> token.value, params |-> self.params ]

----------------------------------------------------------------------------
(* Formatter *)

NoToken == [type |-> "none", value |-> <<>>]
None == <<"<none>">>

\* constructor(cfg, tokenizer)
NewFormatter(c) ==
    [ cfg                  |-> c,
      indentation          |-> NewIndentation(c.indent),
      inlineBlock          |-> NewInlineBlock,
      params               |-> NewParams,
      previousReservedWord |-> NoToken,
      nextLinePrepend      |-> <<>> ]

addNewline(self, query) ==
    trimEnd(query) \o <<NL>> \o getIndent(self.indentation)

formatWithSpaces(token, query) == query \o token.value \o <<SP>>

formatWithoutSpaces(token, query) == trimEnd(query) \o token.value

formatWithSpaceAfter(token, query) == trimEnd(query) \o token.value \o <<SP>>

\* string.replace(/\s+/g, " ")
RECURSIVE equalizeWhitespace(_)
equalizeWhitespace(string) ==
    IF string = <<>> THEN <<>>
    ELSE IF Head(string) \in WhitespaceChars
         THEN IF Len(string) > 1 /\ string[2] \in WhitespaceChars
              THEN equalizeWhitespace(Tail(string))
              ELSE <<SP>> \o equalizeWhitespace(Tail(string))
         ELSE <<Head(string)>> \o equalizeWhitespace(Tail(string))

dropMaxCharacterIndent(self) ==
    [self EXCEPT !.indentation = decreaseAllMaxCharacterLevel(@)]

indentComment(self, comment) ==
    replaceNewlines(comment, <<NL>> \o getIndent(self.indentation))

formatLineComment(self, token, query) ==
    LET s1 == dropMaxCharacterIndent(self)
        text == replaceFirst(replaceFirst(token.value, <<"-", "-">>, <<"/", "*">>),
                             <<NL>>, <<>>) \o <<" ", "*", "/">>
    IN  [this |-> s1, query |-> addNewline(s1, query \o text)]

\* mutant: a line of exactly the maximum length is wrapped as well
checkMaxCharacterAtLeast(self, toks, i, query) ==
    IF /\ self.cfg.maxCharacterPerLine # 0
       /\ Len(lastLine(query)) + Len(toks[i].value) >= self.cfg.maxCharacterPerLine
    THEN LET s1 == [self EXCEPT !.indentation = increaseMaxCharacterLevel(@)]
         IN  [this |-> s1, query |-> addNewline(s1, query)]
    ELSE [this |-> self, query |-> query]

checkMaxCharacter(self, toks, i, query) ==
    IF /\ self.cfg.maxCharacterPerLine # 0
       /\ Len(lastLine(query)) + Len(toks[i].value) > self.cfg.maxCharacterPerLine
    THEN LET s1 == [self EXCEPT !.indentation = increaseMaxCharacterLevel(@)]
         IN  [this |-> s1, query |-> addNewline(s1, query)]
    ELSE [this |-> self, query |-> query]

formatBlockComment(self, token, query) ==
    [ this  |-> self,
      query |-> addNewline(self, addNewline(self, query)
                                 \o indentComment(self, token.value)) ]

formatToplevelReservedWord(self, token, query) ==
    LET s1 == dropMaxCharacterIndent(self)
        s2 == [s1 EXCEPT !.indentation = decreaseNewLineWithIndentLevel(@)]
        s3 == [s2 EXCEPT !.indentation = decreaseTopLevel(@)]
        q1 == addNewline(s3, query)
        s4 == [s3 EXCEPT !.indentation = increaseToplevel(@)]
        q2 == q1 \o equalizeWhitespace(token.value)
    IN  [this |-> s4, query |-> addNewline(s4, q2)]

dropNewLineWithIndentLevel ==
    { <<"C","R","O","S","S"," ","A","P","P","L","Y">>,
      <<"C","R","O","S","S"," ","J","O","I","N">>,
      <<"I","N","N","E","R"," ","J","O","I","N">>,
      <<"J","O","I","N">>,
      <<"L","E","F","T"," ","J","O","I","N">>,
      <<"L","E","F","T"," ","O","U","T","E","R"," ","J","O","I","N">>,
      <<"O","U","T","E","R"," ","A","P","P","L","Y">>,
      <<"O","U","T","E","R"," ","J","O","I","N">>,
      <<"R","I","G","H","T"," ","J","O","I","N">>,
      <<"R","I","G","H","T"," ","O","U","T","E","R"," ","J","O","I","N">> }

formatNewlineReservedWord(self, token, query) ==
    LET s1 == dropMaxCharacterIndent(self)
        s2 == IF toUpperCase(token.value) \in dropNewLineWithIndentLevel
              THEN [s1 EXCEPT !.indentation = decreaseNewLineWithIndentLevel(@)]
              ELSE s1
    IN  [ this  |-> s2,
          query |-> addNewline(s2, query) \o equalizeWhitespace(token.value) \o <<SP>> ]

formatNewlineReservedWordWithIndent(self, token, query) ==
    LET s1 == dropMaxCharacterIndent(self)
        s2 == [s1 EXCEPT !.indentation = increaseNewLineWithIndentLevel(@)]
        q1 == addNewline(s2, query)
    IN  [this |-> s2, query |-> q1 \o equalizeWhitespace(token.value) \o <<SP>>]

\* mutant: the test of inlineBlock.isActive() is inverted
formatOpeningParenthesesInverted(self, toks, i, query) ==
    LET s1 == dropMaxCharacterIndent(self)
        q1 == IF /\ i > 1
                 /\ toks[i - 1].type # tokenTypes.WHITESPACE
                 /\ toks[i - 1].type # tokenTypes.OPEN_PAREN
              THEN trimEnd(query) ELSE query
        s2 == [s1 EXCEPT !.inlineBlock = beginIfPossible(@, toks, i)]
    IN  IF isActive(s2.inlineBlock)
        THEN LET q2 == addNewline(s2, q1) \o toks[i].value
                 s3 == [s2 EXCEPT !.indentation = increaseBlockLevel(@)]
             IN  [this |-> s3, query |-> addNewline(s3, q2)]
        ELSE [this |-> s2, query |-> q1 \o toks[i].value]

formatOpeningParentheses(self, toks, i, query) ==
    LET s1 == dropMaxCharacterIndent(self)
        q1 == IF /\ i > 1
                 /\ toks[i - 1].type # tokenTypes.WHITESPACE
                 /\ toks[i - 1].type # tokenTypes.OPEN_PAREN
              THEN trimEnd(query) ELSE query
        s2 == [s1 EXCEPT !.inlineBlock = beginIfPossible(@, toks, i)]
    IN  IF ~isActive(s2.inlineBlock)
        THEN LET q2 == addNewline(s2, q1) \o toks[i].value
                 s3 == [s2 EXCEPT !.indentation = increaseBlockLevel(@)]
             IN  [this |-> s3, query |-> addNewline(s3, q2)]
        ELSE [this |-> s2, query |-> q1 \o toks[i].value]

\* mutant: the inline block is not ended at its closing parenthesis
formatClosingParenthesesNoEnd(self, token, query) ==
    IF isActive(self.inlineBlock)
    THEN [this |-> self, query |-> formatWithSpaceAfter(token, query)]
    ELSE LET s1 == [self EXCEPT !.indentation = decreaseBlockLevel(@)]
         IN  [this |-> s1, query |-> formatWithSpaces(token, addNewline(s1, query))]

formatClosingParentheses(self, token, query) ==
    IF isActive(self.inlineBlock)
    THEN [ this  |-> [self EXCEPT !.inlineBlock = end(@)],
           query |-> formatWithSpaceAfter(token, query) ]
    ELSE LET s1 == [self EXCEPT !.indentation = decreaseBlockLevel(@)]
         IN  [this |-> s1, query |-> formatWithSpaces(token, addNewline(s1, query))]

formatPlaceholder(self, token, query) ==
    LET got == paramsGet(self, token)
    IN  [ this  |-> [self EXCEPT !.params = got.params],
          query |-> query \o got.text \o <<SP>> ]

\* (/^LIMIT$/i).test(value)
IsLimit(value) ==
    [i \in 1..Len(value) |-> Canonicalize(value[i])] = <<"L", "I", "M", "I", "T">>

\* mutant: the comma is emitted at the end of the line it closes
formatCommaTrailing(self, token, query) ==
    LET s1 == dropMaxCharacterIndent(self)
    IN  IF isActive(s1.inlineBlock) \/ IsLimit(s1.previousReservedWord.value)
        THEN [this |-> s1, query |-> trimEnd(query) \o token.value \o <<SP>>]
        ELSE [this |-> s1, query |-> addNewline(s1, trimEnd(query) \o token.value)]

formatComma(self, token, query) ==
    LET s1 == dropMaxCharacterIndent(self)
    IN  IF isActive(s1.inlineBlock) \/ IsLimit(s1.previousReservedWord.value)
        THEN [this |-> s1, query |-> trimEnd(query) \o token.value \o <<SP>>]
        ELSE LET q1 == trimEnd(query) \o <<SP>>
                 s2 == [s1 EXCEPT !.nextLinePrepend = token.value]
             IN  [this |-> s2, query |-> addNewline(s2, q1)]

----------------------------------------------------------------------------
(* Tokenizer: the external collaborator, for text the formatter produced *)

WordChars ==
    {LowerCase[i] : i \in 1..26} \cup {UpperCase[i] : i \in 1..26} \cup Digits \cup {"_"}

\* length of the longest prefix of s made of characters of set
PrefixLen(s, set) ==
    LET bad == {i \in 1..Len(s) : s[i] \notin set}
    IN  IF bad = {} THEN Len(s) ELSE Min(bad) - 1

reservedWords ==
    { Tok(tokenTypes.RESERVED_TOPLEVEL, <<"S","E","L","E","C","T">>),
      Tok(tokenTypes.RESERVED_TOPLEVEL, <<"F","R","O","M">>),
      Tok(tokenTypes.RESERVED_TOPLEVEL, <<"L","I","M","I","T">>),
      Tok(tokenTypes.RESERVED_TOPLEVEL, <<"W","H","E","R","E">>),
      Tok(tokenTypes.RESERVED_TOPLEVEL, <<"G","R","O","U","P"," ","B","Y">>),
      Tok(tokenTypes.RESERVED_NEWLINE, <<"J","O","I","N">>),
      Tok(tokenTypes.RESERVED_NEWLINE, <<"A","N","D">>),
      Tok(tokenTypes.RESERVED_NEWLINE_WITH_INDENT, <<"O","N">>),
      Tok(tokenTypes.RESERVED, <<"A","S">>) }

\* the reserved words that s starts with, ending at a word boundary
ReservedAt(s) ==
    {w \in reservedWords :
        /\ Len(w.value) <= Len(s)
        /\ toUpperCase(SubSeq(s, 1, Len(w.value))) = w.value
        /\ (Len(s) = Len(w.value) \/ s[Len(w.value) + 1] \notin WordChars)}

\* the next token of the non-empty text s, after the token previous
getNextToken(s, previous) ==
    LET c == Head(s)
        closes == {i \in 3..(Len(s) - 1) : s[i] = "*" /\ s[i + 1] = "/"}
        nls == {i \in 1..Len(s) : s[i] = NL}
        words == ReservedAt(s)
    IN  IF c \in WhitespaceChars
        THEN Tok(tokenTypes.WHITESPACE, SubSeq(s, 1, PrefixLen(s, WhitespaceChars)))
        ELSE IF MatchAt(s, <<"-", "-">>, 1)
        THEN Tok(tokenTypes.LINE_COMMENT,
                 SubSeq(s, 1, IF nls = {} THEN Len(s) ELSE Min(nls)))
        ELSE IF MatchAt(s, <<"/", "*">>, 1)
        THEN Tok(tokenTypes.BLOCK_COMMENT,
                 SubSeq(s, 1, IF closes = {} THEN Len(s) ELSE Min(closes) + 1))
        ELSE IF c = "(" THEN Tok(tokenTypes.OPEN_PAREN, <<c>>)
        ELSE IF c = ")" THEN Tok(tokenTypes.CLOSE_PAREN, <<c>>)
        ELSE IF c = "?" THEN Tok(tokenTypes.PLACEHOLDER, <<c>>)
        ELSE IF words # {} /\ previous.value # <<".">>
        THEN LET w == CHOOSE x \in words : \A y \in words : Len(y.value) <= Len(x.value)
             IN  Tok(w.type, SubSeq(s, 1, Len(w.value)))
        ELSE IF c \in WordChars
        THEN Tok(tokenTypes.WORD, SubSeq(s, 1, PrefixLen(s, WordChars)))
        ELSE Tok(tokenTypes.OPERATOR, <<c>>)

RECURSIVE tokenizeFrom(_, _)
tokenizeFrom(s, previous) ==
    IF s = <<>> THEN <<>>
    ELSE LET token == getNextToken(s, previous)
         IN  <<token>> \o tokenizeFrom(SubSeq(s, Len(token.value) + 1, Len(s)), token)

\* tokenizer.tokenize(query)
tokenize(query) == tokenizeFrom(query, [type |-> "none", value |-> <<>>])

----------------------------------------------------------------------------
(* The state machine *)

Init ==
    /\ \E c \in Configs : this = NewFormatter(c)
    /\ tokens = <<>>
    /\ supplied = <<>>
    /\ index = 1
    /\ formattedQuery = <<>>
    /\ pc = "idle"
    /\ output = None
    /\ calls = 0
    /\ reformatOf = None
    /\ history = <<>>

\* format(query), up to the first token: the tokenizer's result is the input,
\* drawn from firstSeqs in the first call on the object
FormatFrom(firstSeqs) ==
    /\ pc \in {"idle", "returned"}
    /\ reformatOf = None
    /\ calls < MaxCalls
    /\ \E q \in (IF calls = 0 THEN firstSeqs ELSE LaterTokenSeqs) :
          /\ tokens' = q
          /\ supplied' = q
    /\ index' = 1
    /\ formattedQuery' = <<>>
    /\ pc' = "running"
    /\ calls' = calls + 1
    /\ output' = None
    /\ history' = <<>>
    /\ UNCHANGED <<this, reformatOf>>

Format == FormatFrom(TokenSeqs)

FormatFair == FormatFrom(FairTokenSeqs)

\* new Formatter(cfg, tokenizer).format(output): the last output, formatted again
Reformat ==
    /\ pc = "returned"
    /\ reformatOf = None
    /\ calls = 1
    /\ this' = NewFormatter(this.cfg)
    /\ tokens' = tokenize(output)
    /\ supplied' = tokenize(output)
    /\ index' = 1
    /\ formattedQuery' = <<>>
    /\ pc' = "running"
    /\ reformatOf' = output
    /\ output' = None
    /\ history' = <<>>
    /\ UNCHANGED calls

Dispatching == pc = "running" /\ index <= Len(tokens)

\* the pending-prefix splice at the head of the forEach callback
Splices ==
    /\ Len(this.nextLinePrepend) # 0
    /\ tokens[index].type # tokenTypes.LINE_COMMENT
    /\ tokens[index].type # tokenTypes.BLOCK_COMMENT
    /\ tokens[index].type # tokenTypes.WHITESPACE

token ==
    IF Splices
    THEN [tokens[index] EXCEPT !.value = this.nextLinePrepend \o @]
    ELSE tokens[index]

thisAfterSplice == IF Splices THEN [this EXCEPT !.nextLinePrepend = <<>>] ELSE this

tokensAfterSplice == [tokens EXCEPT ![index] = token]

TypedBranches ==
    { tokenTypes.WHITESPACE, tokenTypes.LINE_COMMENT, tokenTypes.BLOCK_COMMENT,
      tokenTypes.RESERVED_TOPLEVEL, tokenTypes.RESERVED_NEWLINE,
      tokenTypes.RESERVED_NEWLINE_WITH_INDENT, tokenTypes.RESERVED,
      tokenTypes.OPEN_PAREN, tokenTypes.CLOSE_PAREN, tokenTypes.PLACEHOLDER }

\* what the history keeps of the formatter at the start of a callback
Snapshot == [indentation |-> this.indentation, inlineBlock |-> this.inlineBlock]

\* the end of one forEach callback: r is the handler's result
Advance(r) ==
    /\ this' = r.this
    /\ formattedQuery' = r.query
    /\ tokens' = tokensAfterSplice
    /\ index' = index + 1
    /\ history' = Append(history, Snapshot)
    /\ UNCHANGED <<supplied, pc, output, calls, reformatOf>>

Remember(r) == [r EXCEPT !.this.previousReservedWord = token]

Whitespace ==
    /\ Dispatching
    /\ token.type = tokenTypes.WHITESPACE
    /\ Advance([this |-> thisAfterSplice, query |-> formattedQuery])

LineComment ==
    /\ Dispatching
    /\ token.type = tokenTypes.LINE_COMMENT
    /\ Advance(formatLineComment(thisAfterSplice, token, formattedQuery))

BlockComment ==
    /\ Dispatching
    /\ token.type = tokenTypes.BLOCK_COMMENT
    /\ Advance(formatBlockComment(thisAfterSplice, token, formattedQuery))

ToplevelReservedWord ==
    /\ Dispatching
    /\ token.type = tokenTypes.RESERVED_TOPLEVEL
    /\ Advance(Remember(formatToplevelReservedWord(thisAfterSplice, token, formattedQuery)))

NewlineReservedWord ==
    /\ Dispatching
    /\ token.type = tokenTypes.RESERVED_NEWLINE
    /\ Advance(Remember(formatNewlineReservedWord(thisAfterSplice, token, formattedQuery)))

NewlineReservedWordWithIndent ==
    /\ Dispatching
    /\ token.type = tokenTypes.RESERVED_NEWLINE_WITH_INDENT
    /\ Advance(Remember(formatNewlineReservedWordWithIndent(thisAfterSplice, token,
                                                            formattedQuery)))

ReservedWord ==
    /\ Dispatching
    /\ token.type = tokenTypes.RESERVED
    /\ LET r == checkMaxCharacter(thisAfterSplice, tokensAfterSplice, index, formattedQuery)
       IN  Advance(Remember([this |-> r.this, query |-> formatWithSpaces(token, r.query)]))

OpeningParentheses ==
    /\ Dispatching
    /\ token.type = tokenTypes.OPEN_PAREN
    /\ Advance(formatOpeningParentheses(thisAfterSplice, tokensAfterSplice, index,
                                        formattedQuery))

ClosingParentheses ==
    /\ Dispatching
    /\ token.type = tokenTypes.CLOSE_PAREN
    /\ Advance(formatClosingParentheses(thisAfterSplice, token, formattedQuery))

Placeholder ==
    /\ Dispatching
    /\ token.type = tokenTypes.PLACEHOLDER
    /\ Advance(formatPlaceholder(thisAfterSplice, token, formattedQuery))

Comma ==
    /\ Dispatching
    /\ token.type \notin TypedBranches
    /\ token.value = <<",">>
    /\ Advance(formatComma(thisAfterSplice, token, formattedQuery))

Colon ==
    /\ Dispatching
    /\ token.type \notin TypedBranches
    /\ token.value = <<":">>
    /\ Advance([this |-> thisAfterSplice,
                query |-> formatWithSpaceAfter(token, formattedQuery)])

Period ==
    /\ Dispatching
    /\ token.type \notin TypedBranches
    /\ token.value = <<".">>
    /\ Advance([this |-> thisAfterSplice,
                query |-> formatWithoutSpaces(token, formattedQuery)])

Semicolon ==
    /\ Dispatching
    /\ token.type \notin TypedBranches
    /\ token.value = <<";">>
    /\ Advance([this |-> thisAfterSplice,
                query |-> formatWithoutSpaces(token, formattedQuery) \o <<NL, NL>>])

Default ==
    /\ Dispatching
    /\ token.type \notin TypedBranches
    /\ token.value \notin {<<",">>, <<":">>, <<".">>, <<";">>}
    /\ LET r == checkMaxCharacter(thisAfterSplice, tokensAfterSplice, index, formattedQuery)
       IN  Advance([this |-> r.this, query |-> formatWithSpaces(token, r.query)])

\* the forEach is over: return formattedQuery.trim()
Return ==
    /\ pc = "running"
    /\ index > Len(tokens)
    /\ output' = trim(formattedQuery)
    /\ pc' = "returned"
    /\ UNCHANGED <<this, tokens, supplied, index, formattedQuery, calls, reformatOf,
                   history>>

\* one forEach callback, or the return that follows the last one
Step ==
    \/ Whitespace
    \/ LineComment
    \/ BlockComment
    \/ ToplevelReservedWord
    \/ NewlineReservedWord
    \/ NewlineReservedWordWithIndent
    \/ ReservedWord
    \/ OpeningParentheses
    \/ ClosingParentheses
    \/ Placeholder
    \/ Comma
    \/ Colon
    \/ Period
    \/ Semicolon
    \/ Default
    \/ Return

Next ==
    \/ Format
    \/ Whitespace
    \/ LineComment
    \/ BlockComment
    \/ ToplevelReservedWord
    \/ NewlineReservedWord
    \/ NewlineReservedWordWithIndent
    \/ ReservedWord
    \/ OpeningParentheses
    \/ ClosingParentheses
    \/ Placeholder
    \/ Comma
    \/ Colon
    \/ Period
    \/ Semicolon
    \/ Default
    \/ Return

Spec == Init /\ [][Next]_vars

\* format calls, and the reformatting of a first call's output
NextReformat == Next \/ Reformat

ReformatSpec == Init /\ [][NextReformat]_vars

\* the forEach loop is synchronous: a started call runs its callbacks to the end
FairNext == FormatFair \/ Step

FairSpec == Init /\ [][FairNext]_vars /\ WF_vars(Step)

----------------------------------------------------------------------------
(* Properties *)

FirstCall == calls = 1 /\ reformatOf = None

Example1 == <<tSELECT, tA, tComma, tB, tFROM, tT>>

DefaultCfg ==
    /\ this.cfg.indent = <<" ", " ">>
    /\ this.cfg.params = NoParams
    /\ this.cfg.maxCharacterPerLine = 0

EndsWith(s, suffix) ==
    /\ Len(suffix) <= Len(s)
    /\ SubSeq(s, Len(s) - Len(suffix) + 1, Len(s)) = suffix

\* s with its whitespace characters removed
RECURSIVE stripWhitespace(_)
stripWhitespace(s) ==
    IF s = <<>> THEN <<>>
    ELSE (IF Head(s) \in WhitespaceChars THEN <<>> ELSE <<Head(s)>>)
         \o stripWhitespace(Tail(s))

\* the values occur in text one after the other, in this order
RECURSIVE OccursInOrder(_, _)
OccursInOrder(values, text) ==
    IF values = <<>> THEN TRUE
    ELSE LET hits == {i \in 1..Len(text) : MatchAt(text, Head(values), i)}
         IN  /\ hits # {}
             /\ OccursInOrder(Tail(values),
                              SubSeq(text, Min(hits) + Len(Head(values)), Len(text)))

\* the values, whitespace aside, of the tokens that are neither whitespace
\* nor placeholders
RECURSIVE FidelityValues(_)
FidelityValues(toks) ==
    IF toks = <<>> THEN <<>>
    ELSE (IF Head(toks).type \in {tokenTypes.WHITESPACE, tokenTypes.PLACEHOLDER}
          THEN <<>> ELSE <<stripWhitespace(Head(toks).value)>>)
         \o FidelityValues(Tail(toks))

ReservedTypes ==
    { tokenTypes.RESERVED_TOPLEVEL, tokenTypes.RESERVED_NEWLINE,
      tokenTypes.RESERVED_NEWLINE_WITH_INDENT, tokenTypes.RESERVED }

\* the most recent reserved keyword among toks[1..i-1] is LIMIT
LimitIsLastReservedBefore(toks, i) ==
    LET rs == {k \in 1..(i - 1) : toks[k].type \in ReservedTypes}
    IN  rs # {} /\ IsLimit(toks[Max(rs)].value)

IsCommaToken(t) == t.type \notin TypedBranches /\ t.value = <<",">>

\* C1: at the first token of every format call the formatter's state is fresh:
\* the four indent counters are zero, inline mode is inactive, the pending
\* prefix is empty and the previous reserved word is unset.
C1_FreshStateAtFirstToken ==
    (pc = "running" /\ index = 1) =>
        /\ Levels(this.indentation) = 0
        /\ ~isActive(this.inlineBlock)
        /\ this.nextLinePrepend = <<>>
        /\ this.previousReservedWord = NoToken

\* C2: the values of the tokens that are neither whitespace nor placeholders
\* occur in the returned string in input order (whitespace inside a value
\* is not compared).
C2_TokenFidelity ==
    pc = "returned" =>
        OccursInOrder(FidelityValues(supplied), stripWhitespace(output))

\* C3: no line of the returned string ends with a space or a tab, and the
\* string has no leading or trailing whitespace.
C3_NoTrailingWhitespace ==
    pc = "returned" =>
        /\ output = trim(output)
        /\ \A k \in 1..Len(split(output)) :
              LET line == split(output)[k]
              IN  line = <<>> \/ line[Len(line)] \notin {" ", "\t"}

NonNegative(ind) ==
    /\ ind.toplevel >= 0
    /\ ind.block >= 0
    /\ ind.newLineWithIndent >= 0
    /\ ind.maxCharacter >= 0

\* C4: every step leaves each of the four indent counters at least 0, and a
\* closing parenthesis, top-level keyword or join keyword whose decrement
\* meets a counter at zero leaves that counter where the handler's other
\* effects put it (0, or 1 for the top-level increment).
C4_IndentNonNegativity ==
    [][ /\ NonNegative(this'.indentation)
        /\ (ClosingParentheses /\ this.indentation.block = 0)
              => this'.indentation.block = 0
        /\ (ToplevelReservedWord /\ this.indentation.toplevel = 0
                                  /\ this.indentation.newLineWithIndent = 0)
              => (this'.indentation.toplevel = 1
                  /\ this'.indentation.newLineWithIndent = 0)
        /\ (NewlineReservedWord /\ this.indentation.newLineWithIndent = 0)
              => this'.indentation.newLineWithIndent = 0 ]_vars

\* C4 witness: a surplus closing parenthesis was processed as the first token
\* of the first call and the block counter is still zero.
C4_Witness ==
    /\ FirstCall /\ pc = "running" /\ index = 2
    /\ tokens[1].type = tokenTypes.CLOSE_PAREN
    /\ this.indentation.block = 0

\* C5: no top-level keyword, newline keyword, line comment or block comment
\* is dispatched while inline mode is active.
C5_InlineBlockBoundedness ==
    (Dispatching /\ isActive(this.inlineBlock)) => ~isForbiddenToken(tokens[index])

\* C5 witness: a token after an opening parenthesis is about to be dispatched
\* in inline mode.
C5_Witness ==
    /\ Dispatching /\ isActive(this.inlineBlock)
    /\ index > 1
    /\ tokens[index - 1].type = tokenTypes.OPEN_PAREN

\* C6: formatting the tokens of an output again, with a fresh formatter of the
\* same configuration, returns that output.
C6_Idempotence ==
    (pc = "returned" /\ reformatOf # None) => output = reformatOf

Example1Trailing ==
    <<"S","E","L","E","C","T","\n"," "," ","a",",","\n"," "," ","b","\n",
      "F","R","O","M","\n"," "," ","t">>

Example1Leading ==
    <<"S","E","L","E","C","T","\n"," "," ","a","\n"," "," ",",","b","\n",
      "F","R","O","M","\n"," "," ","t">>

\* a comma was dispatched to comma handling outside inline mode and LIMIT
CommaStartedLine ==
    /\ pc = "running" /\ index > 1
    /\ IsCommaToken(tokens[index - 1])
    /\ ~isActive(this.inlineBlock)
    /\ ~IsLimit(this.previousReservedWord.value)

\* C7 as claimed: the comma ends the preceding item's line, and the example
\* SELECT a , b FROM t returns "SELECT\n  a,\n  b\nFROM\n  t".
C7_TrailingComma ==
    /\ CommaStartedLine =>
          EndsWith(formattedQuery, <<",", NL>> \o getIndent(this.indentation))
    /\ (pc = "returned" /\ FirstCall /\ DefaultCfg /\ supplied = Example1)
          => output = Example1Trailing

\* C7 amended: the comma handled outside inline mode and LIMIT is not emitted
\* by its own step: the buffer ends with a newline and the current indent,
\* the comma is held in nextLinePrepend, and the example SELECT a , b FROM t
\* returns "SELECT\n  a\n  ,b\nFROM\n  t".
C7_LeadingComma ==
    /\ CommaStartedLine =>
          /\ EndsWith(formattedQuery, <<NL>> \o getIndent(this.indentation))
          /\ this.nextLinePrepend = <<",">>
    /\ (pc = "returned" /\ FirstCall /\ DefaultCfg /\ supplied = Example1)
          => output = Example1Leading

\* C7 witness: the example has been formatted with its comma leading the line.
C7_Witness ==
    /\ pc = "returned" /\ FirstCall /\ DefaultCfg
    /\ supplied = Example1
    /\ output = Example1Leading

\* C8: after a comma token whose most recent earlier reserved keyword in the
\* stream is LIMIT, the buffer ends with the comma and one space and the
\* pending prefix is empty.
C8_LimitComma ==
    ( /\ pc = "running" /\ index > 1
      /\ IsCommaToken(supplied[index - 1])
      /\ LimitIsLastReservedBefore(supplied, index - 1) )
    => /\ EndsWith(formattedQuery, <<",", SP>>)
       /\ this.nextLinePrepend = <<>>

\* C9: the token sequence is as the tokenizer supplied it.
C9_TokensReadOnly == tokens = supplied

UnmatchedOpenProcessed ==
    /\ pc = "running" /\ index > 1
    /\ tokens[index - 1].type = tokenTypes.OPEN_PAREN
    /\ MatchingClose(tokens, index - 1) = {}

UnmatchedOpenIsMultiline ==
    UnmatchedOpenProcessed =>
        /\ ~isActive(this.inlineBlock)
        /\ this.indentation.block >= 1
        /\ EndsWith(formattedQuery,
                    tokens[index - 1].value \o <<NL>> \o getIndent(this.indentation))

ConsumedInOrder ==
    /\ pc = "running" => (index \in 1..(Len(tokens) + 1) /\ Len(tokens) = Len(supplied))
    /\ pc = "returned" => (index = Len(tokens) + 1 /\ output # None)

\* C10: every started call returns an output string, having taken the tokens
\* at positions 1..Len one after the other, and an opening parenthesis
\* without a matching close is laid out as a multiline block.
C10_Total ==
    /\ [](ConsumedInOrder /\ UnmatchedOpenIsMultiline)
    /\ [][Dispatching => index' = index + 1]_vars
    /\ (pc = "running") ~> (pc = "returned")

\* C10 witness: an opening parenthesis with no matching close has been
\* processed.
C10_Witness == UnmatchedOpenProcessed

\* the indentation and the inline block before the callback of token k, for
\* k up to the position the forEach has reached
At(k) == IF k = index THEN Snapshot ELSE history[k]

IsToplevelToken(k) == tokens[k].type = tokenTypes.RESERVED_TOPLEVEL

\* the indent levels of the line on which top-level keyword k was emitted: one
\* less than the levels its handler leaves (ToplevelLayout ties this to the
\* buffer)
KeywordLevels(k) == Levels(At(k + 1).indentation) - 1

\* right after a top-level keyword the buffer ends with the keyword's line and
\* an empty line indented exactly one unit deeper
ToplevelLayout ==
    (pc = "running" /\ index > 1 /\ IsToplevelToken(index - 1)) =>
        LET lines == split(formattedQuery)
            n == Len(lines)
        IN  /\ n >= 2
            /\ lines[n - 1] = repeat(this.indentation.indent, KeywordLevels(index - 1))
                              \o equalizeWhitespace(tokens[index - 1].value)
            /\ lines[n] = repeat(this.indentation.indent, KeywordLevels(index - 1) + 1)

\* C11: two top-level keywords of one call that were processed with the same
\* block counter are emitted on lines of the same indentation, and the line
\* started after a top-level keyword is one level deeper than the keyword's.
C11_ToplevelAligned ==
    /\ ToplevelLayout
    /\ \A j, k \in 1..(index - 1) :
          ( /\ j < k
            /\ IsToplevelToken(j) /\ IsToplevelToken(k)
            /\ At(j).indentation.block = At(k).indentation.block )
          => KeywordLevels(j) = KeywordLevels(k)

\* the callback of opening parenthesis o turned inline mode on
ActivatedAt(o) ==
    /\ tokens[o].type = tokenTypes.OPEN_PAREN
    /\ ~isActive(At(o).inlineBlock)
    /\ isActive(At(o + 1).inlineBlock)

\* C12: when the callback of an opening parenthesis turns inline mode on, the
\* parenthesis has a structurally matching closing parenthesis, inline mode
\* is active before every later token up to and including that closing
\* parenthesis (nested pairs included), and it is inactive right after the
\* closing parenthesis.
C12_InlineLastsItsRegion ==
    \A o \in 1..(index - 1) :
        ActivatedAt(o) =>
            /\ MatchingClose(tokens, o) # {}
            /\ \A m \in MatchingClose(tokens, o) :
                  /\ \A k \in (o + 1)..Min({m, index}) : isActive(At(k).inlineBlock)
                  /\ m < index => ~isActive(At(m + 1).inlineBlock)

IsPrefix(s, t) == Len(s) <= Len(t) /\ SubSeq(t, 1, Len(s)) = s

\* the step's buffer has a newline that the buffer before did not have: after
\* the old buffer when the step only appended, after the old buffer's trimmed
\* text when the step trimmed it first
AppendsNewline ==
    LET from == IF IsPrefix(formattedQuery, formattedQuery')
                THEN Len(formattedQuery) ELSE Len(trimEnd(formattedQuery))
    IN  \E i \in (from + 1)..Len(formattedQuery') : formattedQuery'[i] = NL

\* C13: in the first call on a formatter, no callback from the one that turns
\* inline mode on to the one that turns it off appends a newline to the
\* buffer.
C13_InlineSingleLine ==
    [][ ( /\ Dispatching /\ FirstCall
          /\ (isActive(this.inlineBlock) \/ isActive(this'.inlineBlock)) )
        => ~AppendsNewline ]_vars

\* C14: in the string returned by the first call, every semicolon (only
\* semicolon tokens have one in their text) follows the preceding text with no
\* whitespace in between and, when text follows it, is separated from that
\* text by exactly two newlines.
C14_SemicolonBlankLine ==
    (pc = "returned" /\ FirstCall) =>
        \A p \in 1..Len(output) :
            output[p] = ";" =>
                /\ p > 1 => output[p - 1] \notin WhitespaceChars
                /\ p < Len(output) =>
                      /\ p + 3 <= Len(output)
                      /\ output[p + 1] = NL
                      /\ output[p + 2] = NL
                      /\ output[p + 3] \notin WhitespaceChars

\* the occurrences of character c in s
Count(s, c) == Cardinality({i \in 1..Len(s) : s[i] = c})

CommaTokens(toks) == {k \in 1..Len(toks) : IsCommaToken(toks[k])}

\* the pending prefix was spliced into the token dispatched last
SplicedLast ==
    /\ pc = "running" /\ index > 1
    /\ tokens[index - 1] # supplied[index - 1]

\* C15: a comma held in nextLinePrepend is emitted once, right in front of the
\* text of the next token that is neither whitespace nor a comment: after
\* that token the buffer's text ends with the comma and the token's text (a
\* placeholder's text is its substitution, so placeholders are left to the
\* count) and nextLinePrepend is empty; when a call returns nextLinePrepend is
\* empty, and the output of the first call has as many commas as there are
\* comma tokens (no other text of the inputs has a comma).
C15_DeferredCommaEmittedOnce ==
    /\ SplicedLast =>
          /\ this.nextLinePrepend = <<>>
          /\ supplied[index - 1].type # tokenTypes.PLACEHOLDER =>
                EndsWith(trimEnd(formattedQuery),
                         <<",">> \o equalizeWhitespace(supplied[index - 1].value))
    /\ pc = "returned" => this.nextLinePrepend = <<>>
    /\ (pc = "returned" /\ FirstCall) =>
          Count(output, ",") = Cardinality(CommaTokens(supplied))

\* a callback whose own rule starts a new line
StartsLineByRule ==
    \/ LineComment
    \/ BlockComment
    \/ ToplevelReservedWord
    \/ NewlineReservedWord
    \/ NewlineReservedWordWithIndent
    \/ (OpeningParentheses /\ ~isActive(this'.inlineBlock))
    \/ (ClosingParentheses /\ ~isActive(this.inlineBlock))
    \/ (Comma /\ this'.nextLinePrepend # <<>>)

\* C16: a callback whose own rule starts a new line renders that line's
\* indentation with the overflow counter at zero.  (None of these handlers
\* raises the counter, so the value the callback leaves is the value the
\* indentation was rendered with.)
C16_NoOverflowAtNaturalBreak ==
    [][StartsLineByRule => this'.indentation.maxCharacter = 0]_vars

\* a callback that applies the max-line-length check
AppliesCheck == ReservedWord \/ Default

\* the check's condition, on the buffer and the token as the callback has them
\* (the token's value with a pending prefix spliced in)
ExceedsMaximum ==
    /\ this.cfg.maxCharacterPerLine # 0
    /\ Len(lastLine(formattedQuery)) + Len(token.value) > this.cfg.maxCharacterPerLine

\* C17: a callback of an other-reserved keyword or a default token raises the
\* overflow counter by one and starts a new line (trimmed buffer, newline,
\* indentation of the raised levels) before the token's text exactly when the
\* maximum is not 0 and the last buffer line plus the token's value is longer
\* than it; otherwise it appends the token's text to the buffer as it is and
\* leaves the four counters alone.  With maximum 0 the overflow counter is 0
\* in every state.
C17_MaxCharacterCheck ==
    /\ [](this.cfg.maxCharacterPerLine = 0 => this.indentation.maxCharacter = 0)
    /\ [][ AppliesCheck =>
             IF ExceedsMaximum
             THEN /\ this'.indentation =
                        [this.indentation EXCEPT !.maxCharacter = @ + 1]
                  /\ formattedQuery' =
                        trimEnd(formattedQuery) \o <<NL>>
                        \o repeat(this.indentation.indent, Levels(this.indentation) + 1)
                        \o token.value \o <<SP>>
             ELSE /\ this'.indentation = this.indentation
                  /\ formattedQuery' = formattedQuery \o token.value \o <<SP>> ]_vars

\* C17 witness: in the first call the check has wrapped before the token
\* dispatched last: the overflow counter is raised and the buffer's last line
\* is the raised indentation and the token's text.
C17_Witness ==
    /\ FirstCall /\ pc = "running" /\ index > 1
    /\ tokens[index - 1].type \in {tokenTypes.RESERVED, tokenTypes.WORD}
    /\ this.indentation.maxCharacter = At(index - 1).indentation.maxCharacter + 1
    /\ lastLine(formattedQuery) =
          getIndent(this.indentation) \o tokens[index - 1].value \o <<SP>>

IsOpen(k) == tokens[k].type = tokenTypes.OPEN_PAREN

IsClose(k) == tokens[k].type = tokenTypes.CLOSE_PAREN

\* C18: in the first call on a formatter, for every opening parenthesis whose
\* structurally matching closing parenthesis has been processed, the block
\* counter after the closing parenthesis is the block counter before the
\* opening one; and a callback lowers the block counter only if its token is
\* a closing parenthesis whose matching opening parenthesis raised the
\* counter.
C18_BlockBalanced ==
    FirstCall =>
        /\ \A o \in 1..(index - 1) :
              IsOpen(o) =>
                  \A m \in MatchingClose(tokens, o) :
                      m < index =>
                          At(m + 1).indentation.block = At(o).indentation.block
        /\ \A k \in 1..(index - 1) :
              At(k + 1).indentation.block < At(k).indentation.block =>
                  /\ IsClose(k)
                  /\ \E o \in 1..(k - 1) :
                        /\ IsOpen(o)
                        /\ k \in MatchingClose(tokens, o)
                        /\ At(o + 1).indentation.block = At(o).indentation.block + 1

====
